---- MODULE Spec2Model ----
(***************************************************************************)
(* Momentum-trading engine: the per-(account, symbol) position record, the *)
(* movement detector, the entry engine, the trigger ladder and the trigger *)
(* runner, together with the exchange they talk to.                        *)
(*                                                                         *)
(* One symbol is modelled.  Prices are integers (one unit = one price      *)
(* tick); percentages are integers in units of 0.01 % (10000 = 100 %), so  *)
(* the source's  x * (1 + pct / 100)  reads  x * (10000 + pct) / 10000.    *)
(* The source computes in binary floating point; here every product is     *)
(* exact and every stored quotient is rounded as noted at its definition.  *)
(*                                                                         *)
(* Scheduling is the JavaScript event loop: a handler runs without         *)
(* interruption until it awaits a network call (`running` names the        *)
(* handler that holds the thread); awaits of the loggers resolve within    *)
(* the same turn and are no scheduling points.                             *)
(***************************************************************************)
EXTENDS Integers, Sequences, FiniteSets, TLC

\* ---------------------------------------------------------------- bounds
MaxMsgs == 4        \* kline messages accepted in one behaviour
MaxQueue == 3       \* user-stream events in flight per account
LadderCount == 2    \* `count` handed to calculateTriggers
HistCap == 2        \* `maxLength` handed to addCandleToQueue
SweepLen == 8       \* prices fed in one trigger sweep
MaxGap == 1         \* closed klines a websocket outage may skip
MaxCloses == 8      \* websocket close events in one behaviour
MaxAllocs == 3      \* position objects (and lists) the account manager creates
MaxTrailCalls == 3  \* placeTrailStopLoss calls in one behaviour

\* ------------------------------------------------------------ configuration
Tasks == {"t1", "t2"}              \* kline message handlers in flight
None == "none"

\* config.json, one pair: threshold 1, two previous candles, fees 0.10 %
pairConfig ==
    [threshold |-> 1, num_previous_candles |-> 2, fees_exemption_percentage |-> 10]

Null == 0 - 1                      \* JavaScript null in a numeric field
Truthy(x) == x # Null /\ x # 0     \* JavaScript truthiness of number | null

\* kline messages: k.o, k.c, k.x
Candle(o, c, x) == [open |-> o, close |-> c, x |-> x]
Msgs ==
    { Candle(1000, 1000, TRUE), Candle(1000, 1100, TRUE),
      Candle(1100, 1120, FALSE), Candle(1100, 1150, FALSE),
      Candle(1100, 1080, FALSE), Candle(1100, 1050, FALSE) }
\* what the startup backfill may have left in the history
Backfills == { <<>>, <<Candle(1000, 1000, TRUE)>>, <<Candle(1000, 1020, TRUE)>> }

\* ------------------------------------------------------------ arithmetic
Abs(x) == IF x < 0 THEN 0 - x ELSE x
\* n / d rounded to the nearest integer, halves up (Number.toFixed)
RoundDiv(n, d) == (2 * n + d) \div (2 * d)

RECURSIVE SumSeq(_)
SumSeq(s) == IF s = <<>> THEN 0 ELSE Head(s) + SumSeq(Tail(s))

\* Array.prototype.slice(-n)
LastN(s, n) == IF Len(s) <= n THEN s ELSE SubSeq(s, Len(s) - n + 1, Len(s))

\* |close - open| / open * 100, in units of 0.01 %
Diff(c) == (Abs(c.close - c.open) * 10000) \div c.open
Diffs(h) == [i \in 1..Len(h) |-> Diff(h[i])]

\* the detector as it would be if either condition were enough
DetectorFiresOnEither(h, c) ==
    \/ Diff(c) * Len(h) > pairConfig.threshold * SumSeq(Diffs(h))
    \/ Diff(c) > SumSeq(LastN(Diffs(h), pairConfig.num_previous_candles))

\* processCandles: currentDiff > threshold * mean(diffs) && currentDiff > sum(last N)
DetectorFires(h, c) ==
    /\ Diff(c) * Len(h) > pairConfig.threshold * SumSeq(Diffs(h))
    /\ Diff(c) > SumSeq(LastN(Diffs(h), pairConfig.num_previous_candles))
\* dynamicThreshold / 2 (quotient truncated to 0.01 %)
HalfDynamicThreshold(h) ==
    (pairConfig.threshold * SumSeq(Diffs(h))) \div (2 * Len(h))

\* checkMovementThreshold: the two breach tests and the protective stop
UpBreach(price, lock, mt) == price * 10000 >= lock * (10000 + mt)
DownBreach(price, lock, mt) == price * 10000 <= lock * (10000 - mt)
EntryStop(price, side, mt) ==
    IF side = "BUY" THEN RoundDiv(price * (10000 - mt), 10000)
    ELSE RoundDiv(price * (10000 + mt), 10000)

\* the running stop as it would be if the seed left the fees out
RECURSIVE StopXWithoutFeesInSeed(_, _, _, _, _)
StopXWithoutFeesInSeed(E, dir, mt, f, i) ==
    IF i = 0
    THEN IF dir = "long" THEN (E * (10000 - mt)) \div 1000
         ELSE (E * (10000 + mt)) \div 1000
    ELSE IF dir = "long"
         THEN RoundDiv(StopXWithoutFeesInSeed(E, dir, mt, f, i - 1) * (10000 + mt + f), 10000)
         ELSE RoundDiv(StopXWithoutFeesInSeed(E, dir, mt, f, i - 1) * (10000 - mt - f), 10000)

\* calculateTriggers: trigger i and the running stop (kept in tenths of a tick)
TriggerAt(E, dir, mt, i) ==
    IF dir = "long" THEN RoundDiv(E * (10000 + i * mt), 10000)
    ELSE RoundDiv(E * (10000 - i * mt), 10000)
RECURSIVE StopX(_, _, _, _, _)
StopX(E, dir, mt, f, i) ==
    IF i = 0
    THEN IF dir = "long" THEN (E * (10000 - mt - f)) \div 1000
         ELSE (E * (10000 + mt + f)) \div 1000
    ELSE IF dir = "long"
         THEN RoundDiv(StopX(E, dir, mt, f, i - 1) * (10000 + mt + f), 10000)
         ELSE RoundDiv(StopX(E, dir, mt, f, i - 1) * (10000 - mt - f), 10000)
LadderTriggers(E, dir, mt, count) == [i \in 1..count |-> TriggerAt(E, dir, mt, i)]
LadderStops(E, dir, mt, f, count) ==
    [i \in 1..count |-> RoundDiv(StopX(E, dir, mt, f, i), 10)]

\* ------------------------------------------------------------------ state
VARIABLES
    accounts,            \* config.accounts, in configuration order
    pos,                 \* accountData[account].positions[symbol]
    positionLocks,       \* TradeManager.positionLocks[symbol], per account
    processingTriggers,  \* processingTriggers[account-symbol]
    symbolCandles,       \* symbolCandles[symbol]
    task,                \* the kline message handlers and their locals
    running,             \* the handler that holds the thread, or None
    msgCount,            \* kline messages accepted so far
    exPos,               \* exchange: position of the account ("flat"/"long"/"short")
    exStop,              \* exchange: stop price of the resting STOP_MARKET, or Null
    events,              \* exchange: ACCOUNT_UPDATE events not yet delivered
    entries,             \* history: MARKET entries accepted, and not rolled back, since the last flat report
    placedOk,            \* history: stop prices placeTrailStopLoss returned true for in the advance at hand
    last,                \* history: what the last step did
    wsReconnectAttempts, \* the reconnect counter of the kline stream
    closeHandlers,       \* 'close' handlers waiting out their delay
    closeCount,          \* 'close' events so far
    positionObjects,     \* heap: the position objects ever created, by reference
    lists,               \* heap: the arrays ever created, by reference
    storedRef,           \* accountData[account].positions[symbol], a reference
    heldRef,             \* what a caller got from getPositionData, or 0
    pendingWrites,       \* documents handed to fs.writeFile, not yet written
    disk,                \* the document in the account file
    openOrders,          \* exchange: the open orders of the symbol, as getAllOpenOrders lists them
    trail,               \* the placeTrailStopLoss call at hand, and the one before it
    entryOrder,          \* placePositionWithStopLoss: the call's arguments and the quantity it orders
    closing,             \* closePosition: the positions it was answered, its loop index and the orders it sent
    built,               \* calculateTriggers: the arguments of a call and the ladder it stored
    accountData,         \* AccountManager.accountData: account -> symbol -> position
    saveCalls,           \* saveAccountData calls made so far
    lastCall             \* the last updatePosition call and how it ended

\* the trading engine's part of the state, and the parts beside it
engineVars == <<accounts, pos, positionLocks, processingTriggers, symbolCandles, task, running,
                msgCount, exPos, exStop, events, entries, placedOk, last>>
wsVars == <<wsReconnectAttempts, closeHandlers, closeCount>>
refVars == <<positionObjects, lists, storedRef, heldRef>>
fileVars == <<pendingWrites, disk>>
gatewayVars == <<openOrders, trail>>
entryVars == <<entryOrder>>
closeVars == <<closing>>
ladderVars == <<built>>
storeVars == <<accountData, saveCalls, lastCall>>
sideVars == <<wsVars, refVars, fileVars, gatewayVars, entryVars, closeVars, ladderVars, storeVars>>
vars == <<engineVars, sideVars>>

\* no entry call in progress
NoEntryOrder ==
    [pc |-> "idle", side |-> None, usdtAmount |-> 0, currentPrice |-> 0,
     movementThreshold |-> 0, stopPriceNum |-> 0, quantity |-> 0]

\* no closePosition call in progress
NotClosing == [pc |-> "idle", position |-> <<>>, i |-> 0, sent |-> <<>>]

\* no calculateTriggers call made yet
NoLadder == [pc |-> "idle", entryPrice |-> 0, direction |-> None,
             movement_threshold |-> 0, triggers |-> <<>>, stop_prices |-> <<>>]

\* the accounts and symbols initializeAccountData created, and the position it
\* creates, cut down to three of its fields
StoreAccounts == {"A", "B"}
StoreSymbols == {"BTCUSDT", "ETHUSDT"}
StoredPosition == [status |-> FALSE, entry_price |-> Null, triggers |-> <<>>]

\* no updatePosition call made yet
NoCall == [n |-> 0, account |-> None, symbol |-> None, updates |-> <<>>, result |-> None]

\* the module-level state of index.ts beside the engine
SideInit ==
    /\ wsReconnectAttempts = 0
    /\ closeHandlers = 0
    /\ closeCount = 0
    /\ positionObjects = <<[lock_close_price |-> Null, triggers |-> 1]>>
    /\ lists = << <<>> >>
    /\ storedRef = 1
    /\ heldRef = 0
    /\ pendingWrites = {}
    /\ disk = [lock_close_price |-> Null, triggers |-> <<>>]
    /\ openOrders = <<>>
    /\ trail = [pc |-> "idle", forSide |-> None, stopPrice |-> Null, calls |-> 0,
                cancels |-> 0, submits |-> 0, prevSide |-> None, prevStopPrice |-> Null]
    /\ entryOrder = NoEntryOrder
    /\ closing = NotClosing
    /\ built = NoLadder
    /\ accountData = [a \in StoreAccounts |-> [s \in StoreSymbols |-> StoredPosition]]
    /\ saveCalls = 0
    /\ lastCall = NoCall

\* AccountManager.initializeAccountData: a fresh position
InitialPosition ==
    [status |-> FALSE, entry_price |-> Null, triggers |-> <<>>, stop_prices |-> <<>>,
     trigger_side |-> None, lock_close_price |-> Null, movement_threshold |-> Null,
     is_placing_stop_loss_running |-> FALSE]

FreeTask ==
    [pc |-> "free", msg |-> Candle(0, 0, FALSE), acct |-> 1, side |-> None,
     lockClosePrice |-> Null, mt |-> Null, entryPrice |-> Null, stopPrice |-> Null,
     out |-> None, threw |-> FALSE, retryCount |-> 0,
     triggers |-> <<>>, stopPrices |-> <<>>, isLong |-> FALSE]

\* the state after construction, for the accounts `accts` of config.json
InitFor(accts) ==
    LET names == {accts[i] : i \in 1..Len(accts)} IN
    /\ accounts = accts
    /\ pos = [a \in names |-> InitialPosition]
    /\ positionLocks = [a \in names |-> FALSE]
    /\ processingTriggers = [a \in names |-> FALSE]
    /\ symbolCandles \in Backfills
    /\ task = [t \in Tasks |-> FreeTask]
    /\ running = None
    /\ msgCount = 0
    /\ exPos = [a \in names |-> "flat"]
    /\ exStop = [a \in names |-> Null]
    /\ events = [a \in names |-> <<>>]
    /\ entries = [a \in names |-> 0]
    /\ placedOk = [a \in names |-> {}]
    /\ last = [kind |-> "init", acct |-> None]
    /\ SideInit

Init == InitFor(<<"A">>)
AccountSet == DOMAIN pos

\* AccountManager.updatePosition: merge the patch into the stored record
UpdatePosition(p, a, patch) ==
    [p EXCEPT ![a] = [f \in DOMAIN p[a] |->
                        IF f \in DOMAIN patch THEN patch[f] ELSE p[a][f]]]

Acct(t) == accounts[task[t].acct]
Price(t) == task[t].msg.close

SetTask(t, rec) == [task EXCEPT ![t] = rec]
Did(kind, a) == last' = [kind |-> kind, acct |-> a]

\* ------------------------------------------------------- kline message handler
\* wsClient.on('message'): build the candle and start on the first account
MsgArrive(t) ==
    /\ running = None
    /\ task[t].pc = "free"
    /\ t = "t2" => task["t1"].pc # "free"
    /\ msgCount < MaxMsgs
    /\ \E m \in Msgs :
          task' = SetTask(t, [FreeTask EXCEPT !.pc = "cmt", !.msg = m])
    /\ running' = t
    /\ msgCount' = msgCount + 1
    /\ Did("msg", None)
    /\ UNCHANGED <<accounts, pos, positionLocks, processingTriggers, symbolCandles,
                   exPos, exStop, events, entries, placedOk>>
    /\ UNCHANGED sideVars

\* checkMovementThreshold as it would be if it did not look at status
CheckMovementThresholdIgnoringStatus(t) ==
    /\ running = t
    /\ task[t].pc = "cmt"
    /\ LET a == Acct(t)
           p == pos[a]
           armed == Truthy(p.lock_close_price)
           mt == p.movement_threshold
           up == armed /\ Truthy(mt) /\ UpBreach(Price(t), p.lock_close_price, mt)
           down == armed /\ Truthy(mt) /\ ~up
                      /\ DownBreach(Price(t), p.lock_close_price, mt)
           side == IF up THEN "BUY" ELSE "SELL"
       IN  IF (up \/ down) /\ ~positionLocks[a]
           THEN /\ positionLocks' = [positionLocks EXCEPT ![a] = TRUE]
                /\ task' = SetTask(t, [task[t] EXCEPT !.pc = "exists", !.side = side,
                                          !.lockClosePrice = p.lock_close_price,
                                          !.mt = mt,
                                          !.stopPrice = EntryStop(Price(t), side, mt)])
                /\ running' = None
                /\ Did("entry_locked", a)
           ELSE /\ task' = SetTask(t, [task[t] EXCEPT !.pc = "ct"])
                /\ Did(IF up \/ down THEN "entry_contended" ELSE "no_entry", a)
                /\ UNCHANGED <<positionLocks, running>>
    /\ UNCHANGED <<accounts, pos, processingTriggers, symbolCandles, msgCount,
                   exPos, exStop, events, entries, placedOk>>
    /\ UNCHANGED sideVars

\* checkMovementThreshold as it would be if the accounts shared one entry lock
CheckMovementThresholdSharedLock(t) ==
    /\ running = t
    /\ task[t].pc = "cmt"
    /\ LET a == Acct(t)
           p == pos[a]
           armed == Truthy(p.lock_close_price) /\ ~p.status
           mt == p.movement_threshold
           up == armed /\ Truthy(mt) /\ UpBreach(Price(t), p.lock_close_price, mt)
           down == armed /\ Truthy(mt) /\ ~up
                      /\ DownBreach(Price(t), p.lock_close_price, mt)
           side == IF up THEN "BUY" ELSE "SELL"
           locked == \E b \in DOMAIN positionLocks : positionLocks[b]
       IN  IF (up \/ down) /\ ~locked
           THEN /\ positionLocks' = [positionLocks EXCEPT ![a] = TRUE]
                /\ task' = SetTask(t, [task[t] EXCEPT !.pc = "exists", !.side = side,
                                          !.lockClosePrice = p.lock_close_price,
                                          !.mt = mt,
                                          !.stopPrice = EntryStop(Price(t), side, mt)])
                /\ running' = None
                /\ Did("entry_locked", a)
           ELSE /\ task' = SetTask(t, [task[t] EXCEPT !.pc = "ct"])
                /\ Did(IF up \/ down THEN "entry_contended" ELSE "no_entry", a)
                /\ UNCHANGED <<positionLocks, running>>
    /\ UNCHANGED <<accounts, pos, processingTriggers, symbolCandles, msgCount,
                   exPos, exStop, events, entries, placedOk>>
    /\ UNCHANGED sideVars

\* checkMovementThreshold up to the first network call of placePositionWithStopLoss
CheckMovementThreshold(t) ==
    /\ running = t
    /\ task[t].pc = "cmt"
    /\ LET a == Acct(t)
           p == pos[a]
           armed == Truthy(p.lock_close_price) /\ ~p.status
           mt == p.movement_threshold
           up == armed /\ Truthy(mt) /\ UpBreach(Price(t), p.lock_close_price, mt)
           down == armed /\ Truthy(mt) /\ ~up
                      /\ DownBreach(Price(t), p.lock_close_price, mt)
           side == IF up THEN "BUY" ELSE "SELL"
       IN  IF (up \/ down) /\ ~positionLocks[a]
           THEN /\ positionLocks' = [positionLocks EXCEPT ![a] = TRUE]
                /\ task' = SetTask(t, [task[t] EXCEPT !.pc = "exists", !.side = side,
                                          !.lockClosePrice = p.lock_close_price,
                                          !.mt = mt,
                                          !.stopPrice = EntryStop(Price(t), side, mt)])
                /\ running' = None
                /\ Did("entry_locked", a)
           ELSE /\ task' = SetTask(t, [task[t] EXCEPT !.pc = "ct"])
                /\ Did(IF up \/ down THEN "entry_contended" ELSE "no_entry", a)
                /\ UNCHANGED <<positionLocks, running>>
    /\ UNCHANGED <<accounts, pos, processingTriggers, symbolCandles, msgCount,
                   exPos, exStop, events, entries, placedOk>>
    /\ UNCHANGED sideVars

\* placePositionWithStopLoss as it would be if an existing position were closed
InExistingPositionClosing(t) ==
    /\ running = None
    /\ task[t].pc = "exists"
    /\ LET a == Acct(t) IN
       \E err \in BOOLEAN :
          IF err \/ exPos[a] # "flat"
          THEN /\ task' = SetTask(t, [task[t] EXCEPT !.pc = "close"])
               /\ Did("position_exists", a)
               /\ UNCHANGED <<positionLocks, running>>
          ELSE /\ task' = SetTask(t, [task[t] EXCEPT !.pc = "submit"])
               /\ Did("no_position", a)
               /\ UNCHANGED <<positionLocks, running>>
    /\ UNCHANGED <<accounts, pos, processingTriggers, symbolCandles, msgCount,
                   exPos, exStop, events, entries, placedOk>>
    /\ UNCHANGED sideVars

\* placePositionWithStopLoss: the answer of inExistingPosition
InExistingPosition(t) ==
    /\ running = None
    /\ task[t].pc = "exists"
    /\ LET a == Acct(t) IN
       \E err \in BOOLEAN :
          IF err \/ exPos[a] # "flat"
          THEN /\ positionLocks' = [positionLocks EXCEPT ![a] = FALSE]
               /\ task' = SetTask(t, [task[t] EXCEPT !.pc = "ct"])
               /\ running' = t
               /\ Did("position_exists", a)
          ELSE /\ task' = SetTask(t, [task[t] EXCEPT !.pc = "submit"])
               /\ Did("no_position", a)
               /\ UNCHANGED <<positionLocks, running>>
    /\ UNCHANGED <<accounts, pos, processingTriggers, symbolCandles, msgCount,
                   exPos, exStop, events, entries, placedOk>>
    /\ UNCHANGED sideVars

SubmitOutcomes == {"throw", "ok_ok", "ok_err", "err_ok", "err_err"}

\* placePositionWithStopLoss: the exchange executes submitMultipleOrders([entry, stop])
SubmitMultipleOrders(t) ==
    /\ running = None
    /\ task[t].pc = "submit"
    /\ LET a == Acct(t) IN
       /\ Len(events[a]) < MaxQueue
       /\ \E out \in SubmitOutcomes :
          LET entryOk == out \in {"ok_ok", "ok_err"}
              stopOk == out \in {"ok_ok", "err_ok"}
              dir == IF task[t].side = "BUY" THEN "long" ELSE "short"
          IN  /\ exPos' = IF entryOk THEN [exPos EXCEPT ![a] = dir] ELSE exPos
              /\ events' = IF entryOk
                           THEN [events EXCEPT ![a] =
                                   Append(@, [amt |-> dir, entryPrice |-> Price(t)])]
                           ELSE events
              /\ entries' = IF entryOk THEN [entries EXCEPT ![a] = @ + 1] ELSE entries
              /\ exStop' = IF stopOk THEN [exStop EXCEPT ![a] = task[t].stopPrice]
                           ELSE exStop
              /\ task' = SetTask(t, [task[t] EXCEPT !.pc = "submitted", !.out = out])
              /\ Did("submit_" \o out, a)
    /\ UNCHANGED <<accounts, pos, positionLocks, processingTriggers, symbolCandles,
                   running, msgCount, placedOk>>
    /\ UNCHANGED sideVars

\* placePositionWithStopLoss as it would be if it tested orders[0] and not orders[1]
SubmitAnsweredTestingEntryLeg(t) ==
    /\ running = None
    /\ task[t].pc = "submitted"
    /\ LET a == Acct(t) IN
       IF task[t].out \in {"ok_ok", "ok_err"}
       THEN /\ positionLocks' = [positionLocks EXCEPT ![a] = FALSE]
            /\ task' = SetTask(t, [task[t] EXCEPT !.pc = "calc",
                         !.entryPrice = IF Truthy(pos[a].entry_price)
                                        THEN pos[a].entry_price ELSE Price(t)])
            /\ running' = t
            /\ Did("entry_succeeded", a)
       ELSE /\ task' = SetTask(t, [task[t] EXCEPT !.pc = "close",
                                     !.threw = (task[t].out = "throw")])
            /\ Did("entry_failed", a)
            /\ UNCHANGED <<positionLocks, running>>
    /\ UNCHANGED <<accounts, pos, processingTriggers, symbolCandles, msgCount,
                   exPos, exStop, events, entries, placedOk>>
    /\ UNCHANGED sideVars

\* placePositionWithStopLoss after the answer of submitMultipleOrders
SubmitAnswered(t) ==
    /\ running = None
    /\ task[t].pc = "submitted"
    /\ LET a == Acct(t) IN
       IF task[t].out \in {"ok_ok", "err_ok"}
       THEN \* orders[1] is no error: success; finally releases the lock and the
            \* caller reads entry_price || currentPrice
            /\ positionLocks' = [positionLocks EXCEPT ![a] = FALSE]
            /\ task' = SetTask(t, [task[t] EXCEPT !.pc = "calc",
                         !.entryPrice = IF Truthy(pos[a].entry_price)
                                        THEN pos[a].entry_price ELSE Price(t)])
            /\ running' = t
            /\ Did("entry_succeeded", a)
       ELSE \* the stop leg was refused, or the call threw: closePosition
            /\ task' = SetTask(t, [task[t] EXCEPT !.pc = "close",
                                     !.threw = (task[t].out = "throw")])
            /\ Did("entry_failed", a)
            /\ UNCHANGED <<positionLocks, running>>
    /\ UNCHANGED <<accounts, pos, processingTriggers, symbolCandles, msgCount,
                   exPos, exStop, events, entries, placedOk>>
    /\ UNCHANGED sideVars

\* placePositionWithStopLoss: the answer of closePosition after a failed entry
ClosePosition(t) ==
    /\ running = None
    /\ task[t].pc = "close"
    /\ LET a == Acct(t) IN
       /\ Len(events[a]) < MaxQueue
       /\ \E ok \in BOOLEAN :
          IF ok
          THEN /\ exPos' = [exPos EXCEPT ![a] = "flat"]
               /\ events' = IF exPos[a] # "flat"
                            THEN [events EXCEPT ![a] =
                                    Append(@, [amt |-> "flat", entryPrice |-> 0])]
                            ELSE events
               /\ entries' = [entries EXCEPT ![a] = 0]
               /\ positionLocks' = [positionLocks EXCEPT ![a] = FALSE]
               /\ task' = SetTask(t, [task[t] EXCEPT !.pc = "ct"])
               /\ running' = t
               /\ Did("entry_rolled_back", a)
          ELSE IF ~task[t].threw
          THEN \* closePosition threw inside try: the catch block closes again
               /\ task' = SetTask(t, [task[t] EXCEPT !.threw = TRUE])
               /\ Did("close_threw", a)
               /\ UNCHANGED <<exPos, events, entries, positionLocks, running>>
          ELSE \* closePosition threw inside catch: finally, then the error escapes
               /\ positionLocks' = [positionLocks EXCEPT ![a] = FALSE]
               /\ task' = SetTask(t, [task[t] EXCEPT !.pc = "next"])
               /\ running' = t
               /\ Did("entry_error_escaped", a)
               /\ UNCHANGED <<exPos, events, entries>>
    /\ UNCHANGED <<accounts, pos, processingTriggers, symbolCandles, msgCount,
                   exStop, placedOk>>
    /\ UNCHANGED sideVars

\* calculateTriggers, called by checkMovementThreshold after a successful entry
CalculateTriggers(t) ==
    /\ running = t
    /\ task[t].pc = "calc"
    /\ LET a == Acct(t)
           mt == pos[a].movement_threshold
           dir == IF task[t].side = "BUY" THEN "long" ELSE "short"
           E == task[t].entryPrice
           f == pairConfig.fees_exemption_percentage
       IN  IF ~Truthy(mt)
           THEN /\ Did("ladder_failed", a)
                /\ UNCHANGED pos
           ELSE /\ pos' = UpdatePosition(pos, a,
                            [triggers |-> LadderTriggers(E, dir, mt, LadderCount),
                             stop_prices |-> LadderStops(E, dir, mt, f, LadderCount),
                             trigger_side |-> dir])
                /\ Did("ladder_stored", a)
    /\ task' = SetTask(t, [task[t] EXCEPT !.pc = "ct"])
    /\ UNCHANGED <<accounts, positionLocks, processingTriggers, symbolCandles, running,
                   msgCount, exPos, exStop, events, entries, placedOk>>
    /\ UNCHANGED sideVars

\* checkTriggers as it would be without the processingTriggers test
CheckTriggersWithoutLock(t) ==
    /\ running = t
    /\ task[t].pc = "ct"
    /\ LET a == Acct(t)
           p == pos[a]
           has == p.status /\ Len(p.triggers) > 0 /\ Len(p.stop_prices) > 0
           isLong == p.trigger_side = "long"
           fires == has /\ IF isLong THEN Price(t) >= p.triggers[1]
                                      ELSE Price(t) <= p.triggers[1]
       IN  IF fires
           THEN /\ processingTriggers' = [processingTriggers EXCEPT ![a] = TRUE]
                /\ task' = SetTask(t, [task[t] EXCEPT !.pc = "place", !.retryCount = 0,
                                          !.triggers = p.triggers,
                                          !.stopPrices = p.stop_prices,
                                          !.isLong = isLong])
                /\ running' = None
                /\ placedOk' = [placedOk EXCEPT ![a] = {}]
                /\ Did("trigger_hit", a)
           ELSE /\ task' = SetTask(t, [task[t] EXCEPT !.pc = "next"])
                /\ Did("no_trigger", a)
                /\ UNCHANGED <<processingTriggers, running, placedOk>>
    /\ UNCHANGED <<accounts, pos, positionLocks, symbolCandles, msgCount,
                   exPos, exStop, events, entries>>
    /\ UNCHANGED sideVars

\* checkTriggers as it would be if the price had to pass the trigger, not reach it
CheckTriggersStrict(t) ==
    /\ running = t
    /\ task[t].pc = "ct"
    /\ LET a == Acct(t)
           p == pos[a]
           has == p.status /\ Len(p.triggers) > 0 /\ Len(p.stop_prices) > 0
           isLong == p.trigger_side = "long"
           fires == has /\ IF isLong THEN Price(t) > p.triggers[1]
                                      ELSE Price(t) < p.triggers[1]
       IN  IF fires /\ ~processingTriggers[a]
           THEN /\ processingTriggers' = [processingTriggers EXCEPT ![a] = TRUE]
                /\ task' = SetTask(t, [task[t] EXCEPT !.pc = "place", !.retryCount = 0,
                                          !.triggers = p.triggers,
                                          !.stopPrices = p.stop_prices,
                                          !.isLong = isLong])
                /\ running' = None
                /\ placedOk' = [placedOk EXCEPT ![a] = {}]
                /\ Did("trigger_hit", a)
           ELSE /\ task' = SetTask(t, [task[t] EXCEPT !.pc = "next"])
                /\ Did(IF has /\ processingTriggers[a] /\ fires
                       THEN "trigger_contended" ELSE "no_trigger", a)
                /\ UNCHANGED <<processingTriggers, running, placedOk>>
    /\ UNCHANGED <<accounts, pos, positionLocks, symbolCandles, msgCount,
                   exPos, exStop, events, entries>>
    /\ UNCHANGED sideVars

\* checkTriggers as it would be if neither the first read nor the re-read under
\* the lock looked at status
CheckTriggersOnClosedPosition(t) ==
    /\ running = t
    /\ task[t].pc = "ct"
    /\ LET a == Acct(t)
           p == pos[a]
           has == Len(p.triggers) > 0 /\ Len(p.stop_prices) > 0
           isLong == p.trigger_side = "long"
           fires == has /\ IF isLong THEN Price(t) >= p.triggers[1]
                                      ELSE Price(t) <= p.triggers[1]
           hit == fires /\ ~processingTriggers[a]
       IN  IF hit
           THEN /\ processingTriggers' = [processingTriggers EXCEPT ![a] = TRUE]
                /\ task' = SetTask(t, [task[t] EXCEPT !.pc = "place", !.retryCount = 0,
                                          !.triggers = p.triggers,
                                          !.stopPrices = p.stop_prices,
                                          !.isLong = isLong])
                /\ running' = None
                /\ placedOk' = [placedOk EXCEPT ![a] = {}]
                /\ Did("trigger_hit", a)
           ELSE /\ task' = SetTask(t, [task[t] EXCEPT !.pc = "next"])
                /\ Did(IF has /\ processingTriggers[a] /\ fires
                       THEN "trigger_contended" ELSE "no_trigger", a)
                /\ UNCHANGED <<processingTriggers, running, placedOk>>
    /\ UNCHANGED <<accounts, pos, positionLocks, symbolCandles, msgCount,
                   exPos, exStop, events, entries>>
    /\ UNCHANGED sideVars

\* checkTriggers up to the first network call of placeTrailStopLoss
CheckTriggers(t) ==
    /\ running = t
    /\ task[t].pc = "ct"
    /\ LET a == Acct(t)
           p == pos[a]
           has == p.status /\ Len(p.triggers) > 0 /\ Len(p.stop_prices) > 0
           isLong == p.trigger_side = "long"
           fires == has /\ IF isLong THEN Price(t) >= p.triggers[1]
                                      ELSE Price(t) <= p.triggers[1]
           hit == fires /\ ~processingTriggers[a]
           \* the re-read under the lock sees the record the snapshot was taken from
           current == pos[a]
           stale == ~current.status \/ current.triggers[1] # p.triggers[1]
                       \/ current.stop_prices[1] # p.stop_prices[1]
       IN  IF hit /\ ~stale
           THEN /\ processingTriggers' = [processingTriggers EXCEPT ![a] = TRUE]
                /\ task' = SetTask(t, [task[t] EXCEPT !.pc = "place", !.retryCount = 0,
                                          !.triggers = p.triggers,
                                          !.stopPrices = p.stop_prices,
                                          !.isLong = isLong])
                /\ running' = None
                /\ placedOk' = [placedOk EXCEPT ![a] = {}]
                /\ Did("trigger_hit", a)
           ELSE /\ task' = SetTask(t, [task[t] EXCEPT !.pc = "next"])
                /\ Did(IF has /\ processingTriggers[a] /\ fires
                       THEN "trigger_contended" ELSE "no_trigger", a)
                /\ UNCHANGED <<processingTriggers, running, placedOk>>
    /\ UNCHANGED <<accounts, pos, positionLocks, symbolCandles, msgCount,
                   exPos, exStop, events, entries>>
    /\ UNCHANGED sideVars

PlaceOutcomes == {"ok", "throw", "throw_after_cancel"}

\* checkTriggers as it would be if a failed placement still reached the pop
PlaceTrailStopLossIgnoringFailure(t) ==
    /\ running = None
    /\ task[t].pc = "place"
    /\ LET a == Acct(t)
           stopPrice == task[t].stopPrices[1]
           existing == exStop[a] = stopPrice
       IN  \E out \in PlaceOutcomes :
           /\ out = "throw_after_cancel" => ~existing
           /\ exStop' = IF existing \/ out = "throw" THEN exStop
                        ELSE IF out = "ok" THEN [exStop EXCEPT ![a] = stopPrice]
                        ELSE [exStop EXCEPT ![a] = Null]
           /\ placedOk' = IF out = "ok" THEN [placedOk EXCEPT ![a] = @ \cup {stopPrice}]
                          ELSE placedOk
           /\ task' = SetTask(t, [task[t] EXCEPT !.pc = "pop"])
           /\ Did(IF out = "ok" THEN "stop_placed" ELSE "stop_failed", a)
           /\ UNCHANGED processingTriggers
    /\ running' = t
    /\ UNCHANGED <<accounts, pos, positionLocks, symbolCandles, msgCount, exPos,
                   events, entries>>
    /\ UNCHANGED sideVars

\* checkTriggers as it would be without its finally block
PlaceTrailStopLossKeepingLock(t) ==
    /\ running = None
    /\ task[t].pc = "place"
    /\ LET a == Acct(t)
           stopPrice == task[t].stopPrices[1]
           existing == exStop[a] = stopPrice
       IN  \E out \in PlaceOutcomes :
           /\ out = "throw_after_cancel" => ~existing
           /\ exStop' = IF existing \/ out = "throw" THEN exStop
                        ELSE IF out = "ok" THEN [exStop EXCEPT ![a] = stopPrice]
                        ELSE [exStop EXCEPT ![a] = Null]
           /\ IF out = "ok"
              THEN /\ placedOk' = [placedOk EXCEPT ![a] = @ \cup {stopPrice}]
                   /\ task' = SetTask(t, [task[t] EXCEPT !.pc = "pop"])
                   /\ Did("stop_placed", a)
              ELSE /\ task' = SetTask(t, [task[t] EXCEPT !.pc = "next"])
                   /\ Did("stop_failed", a)
                   /\ UNCHANGED placedOk
           /\ UNCHANGED processingTriggers
    /\ running' = t
    /\ UNCHANGED <<accounts, pos, positionLocks, symbolCandles, msgCount, exPos, events, entries>>
    /\ UNCHANGED sideVars

\* checkTriggers: the answer of placeTrailStopLoss(symbol, side, stopPrices[0])
PlaceTrailStopLoss(t) ==
    /\ running = None
    /\ task[t].pc = "place"
    /\ LET a == Acct(t)
           stopPrice == task[t].stopPrices[1]
           existing == exStop[a] = stopPrice
       IN  \E out \in PlaceOutcomes :
           /\ out = "throw_after_cancel" => ~existing
           /\ exStop' = IF existing \/ out = "throw" THEN exStop
                        ELSE IF out = "ok" THEN [exStop EXCEPT ![a] = stopPrice]
                        ELSE [exStop EXCEPT ![a] = Null]
           /\ IF out = "ok"
              THEN /\ placedOk' = [placedOk EXCEPT ![a] = @ \cup {stopPrice}]
                   /\ task' = SetTask(t, [task[t] EXCEPT !.pc = "pop"])
                   /\ Did("stop_placed", a)
                   /\ UNCHANGED processingTriggers
              ELSE \* placeTrailStopLoss rethrows: the error leaves the retry loop
                   \* before retryCount++ is reached; catch, then finally
                   /\ processingTriggers' = [processingTriggers EXCEPT ![a] = FALSE]
                   /\ task' = SetTask(t, [task[t] EXCEPT !.pc = "next"])
                   /\ Did("stop_failed", a)
                   /\ UNCHANGED placedOk
    /\ running' = t
    /\ UNCHANGED <<accounts, pos, positionLocks, symbolCandles, msgCount, exPos, events, entries>>
    /\ UNCHANGED sideVars

\* the pop as it would be if only triggers lost its head
PopLadderTriggersOnly(t) ==
    /\ running = t
    /\ task[t].pc = "pop"
    /\ LET a == Acct(t) IN
       /\ pos' = UpdatePosition(pos, a, [triggers |-> Tail(task[t].triggers),
                                         stop_prices |-> task[t].stopPrices])
       /\ processingTriggers' = [processingTriggers EXCEPT ![a] = FALSE]
       /\ Did("ladder_popped", a)
    /\ task' = SetTask(t, [task[t] EXCEPT !.pc = "next"])
    /\ UNCHANGED <<accounts, positionLocks, symbolCandles, running, msgCount,
                   exPos, exStop, events, entries, placedOk>>
    /\ UNCHANGED sideVars

\* checkTriggers, placed = true: store the ladder without its head, release the lock
PopLadder(t) ==
    /\ running = t
    /\ task[t].pc = "pop"
    /\ LET a == Acct(t) IN
       /\ pos' = UpdatePosition(pos, a, [triggers |-> Tail(task[t].triggers),
                                         stop_prices |-> Tail(task[t].stopPrices)])
       /\ processingTriggers' = [processingTriggers EXCEPT ![a] = FALSE]
       /\ Did("ladder_popped", a)
    /\ task' = SetTask(t, [task[t] EXCEPT !.pc = "next"])
    /\ UNCHANGED <<accounts, positionLocks, symbolCandles, running, msgCount,
                   exPos, exStop, events, entries, placedOk>>
    /\ UNCHANGED sideVars

\* the handler as it would be if a closed candle were appended before the
\* detector ran
NextAccountAppendingFirst(t) ==
    /\ running = t
    /\ task[t].pc = "next"
    /\ LET cleared == [FreeTask EXCEPT !.msg = task[t].msg] IN
       IF task[t].acct < Len(accounts)
       THEN /\ task' = SetTask(t, [cleared EXCEPT !.pc = "cmt", !.acct = task[t].acct + 1])
            /\ UNCHANGED running
       ELSE IF task[t].msg.x
       THEN /\ task' = SetTask(t, [cleared EXCEPT !.pc = "append"])
            /\ UNCHANGED running
       ELSE /\ task' = SetTask(t, FreeTask)
            /\ running' = None
    /\ Did("next", None)
    /\ UNCHANGED <<accounts, pos, positionLocks, processingTriggers, symbolCandles, msgCount,
                   exPos, exStop, events, entries, placedOk>>
    /\ UNCHANGED sideVars

\* the message handler's loops over config.accounts
NextAccount(t) ==
    /\ running = t
    /\ task[t].pc = "next"
    /\ LET cleared == [FreeTask EXCEPT !.msg = task[t].msg] IN
       IF task[t].acct < Len(accounts)
       THEN /\ task' = SetTask(t, [cleared EXCEPT !.pc = "cmt", !.acct = task[t].acct + 1])
            /\ UNCHANGED running
       ELSE IF task[t].msg.x
       THEN /\ task' = SetTask(t, [cleared EXCEPT !.pc = "det"])
            /\ UNCHANGED running
       ELSE /\ task' = SetTask(t, FreeTask)
            /\ running' = None
    /\ Did("next", None)
    /\ UNCHANGED <<accounts, pos, positionLocks, processingTriggers, symbolCandles, msgCount,
                   exPos, exStop, events, entries, placedOk>>
    /\ UNCHANGED sideVars

\* processCandles for the account at hand, on a closed candle
ProcessCandles(t) ==
    /\ running = t
    /\ task[t].pc = "det"
    /\ LET a == Acct(t)
           c == task[t].msg
       IN  IF Len(symbolCandles) = 0
           THEN \* `No candles found`: the handler's catch, nothing is appended
                /\ task' = SetTask(t, FreeTask)
                /\ running' = None
                /\ Did("missing_history", a)
                /\ UNCHANGED pos
           ELSE /\ IF DetectorFires(symbolCandles, c)
                   THEN /\ pos' = UpdatePosition(pos, a,
                                    [lock_close_price |-> c.close,
                                     movement_threshold |->
                                         HalfDynamicThreshold(symbolCandles)])
                        /\ Did("detector_fired", a)
                   ELSE /\ Did("detector_quiet", a)
                        /\ UNCHANGED pos
                /\ task' = SetTask(t, IF task[t].acct < Len(accounts)
                                      THEN [task[t] EXCEPT !.acct = @ + 1]
                                      ELSE [task[t] EXCEPT !.pc = "append"])
                /\ UNCHANGED running
    /\ UNCHANGED <<accounts, positionLocks, processingTriggers, symbolCandles, msgCount,
                   exPos, exStop, events, entries, placedOk>>
    /\ UNCHANGED sideVars

\* addCandleToQueue as it would be if it never shifted
AddCandleToQueueWithoutShift(candles, candle, maxLength) == Append(candles, candle)

\* addCandleToQueue(symbolCandles[symbol], candle, maxLength)
AddCandleToQueue(candles, candle, maxLength) ==
    Append(IF Len(candles) >= maxLength THEN Tail(candles) ELSE candles, candle)

AppendCandle(t) ==
    /\ running = t
    /\ task[t].pc = "append"
    /\ symbolCandles' = AddCandleToQueue(symbolCandles, task[t].msg, HistCap)
    /\ task' = SetTask(t, FreeTask)
    /\ running' = None
    /\ Did("appended", None)
    /\ UNCHANGED <<accounts, pos, positionLocks, processingTriggers, msgCount,
                   exPos, exStop, events, entries, placedOk>>
    /\ UNCHANGED sideVars

\* ------------------------------------------------------------- user stream
\* the flat patch as it would be if it forgot the ladder
ClearedPatchKeepingLadder ==
    [status |-> FALSE, entry_price |-> Null, lock_close_price |-> Null,
     movement_threshold |-> Null, trigger_side |-> None]
ClearedPatch ==
    [status |-> FALSE, entry_price |-> Null, lock_close_price |-> Null,
     movement_threshold |-> Null, triggers |-> <<>>, stop_prices |-> <<>>,
     trigger_side |-> None]
OpenPatch(entryPrice) == [status |-> TRUE, entry_price |-> entryPrice]

\* TradeManager.handleAccountUpdate for one updated position
HandleAccountUpdate(a) ==
    /\ running = None
    /\ events[a] # <<>>
    /\ LET e == Head(events[a]) IN
       IF e.amt = "flat"
       THEN /\ pos' = UpdatePosition(pos, a, ClearedPatch)
            /\ entries' = [entries EXCEPT ![a] = 0]
            /\ Did("update_flat", a)
       ELSE /\ pos' = UpdatePosition(pos, a, OpenPatch(e.entryPrice))
            /\ Did("update_open", a)
            /\ UNCHANGED entries
    /\ events' = [events EXCEPT ![a] = Tail(@)]
    /\ UNCHANGED <<accounts, positionLocks, processingTriggers, symbolCandles, task, running,
                   msgCount, exPos, exStop, placedOk>>
    /\ UNCHANGED sideVars

\* ---------------------------------------------------------------- exchange
\* the resting STOP_MARKET closePosition order triggers and flattens the position
ExchangeStopHit(a) ==
    /\ running = None
    /\ exPos[a] # "flat"
    /\ exStop[a] # Null
    /\ Len(events[a]) < MaxQueue
    /\ exPos' = [exPos EXCEPT ![a] = "flat"]
    /\ exStop' = [exStop EXCEPT ![a] = Null]
    /\ events' = [events EXCEPT ![a] = Append(@, [amt |-> "flat", entryPrice |-> 0])]
    /\ Did("stop_hit", a)
    /\ UNCHANGED <<accounts, pos, positionLocks, processingTriggers, symbolCandles, task,
                   running, msgCount, entries, placedOk>>
    /\ UNCHANGED sideVars

Next ==
    \/ \E t \in Tasks : MsgArrive(t)
    \/ \E t \in Tasks : CheckMovementThreshold(t)
    \/ \E t \in Tasks : InExistingPosition(t)
    \/ \E t \in Tasks : SubmitMultipleOrders(t)
    \/ \E t \in Tasks : SubmitAnswered(t)
    \/ \E t \in Tasks : ClosePosition(t)
    \/ \E t \in Tasks : CalculateTriggers(t)
    \/ \E t \in Tasks : CheckTriggers(t)
    \/ \E t \in Tasks : PlaceTrailStopLoss(t)
    \/ \E t \in Tasks : PopLadder(t)
    \/ \E t \in Tasks : NextAccount(t)
    \/ \E t \in Tasks : ProcessCandles(t)
    \/ \E t \in Tasks : AppendCandle(t)
    \/ \E a \in AccountSet : HandleAccountUpdate(a)
    \/ \E a \in AccountSet : ExchangeStopHit(a)

Spec == Init /\ [][Next]_vars

\* ------------------------------------------------------ two accounts
\* The engine with two accounts in config.accounts: each has its own
\* AccountManager, TradeManager and user stream, and both are served by every
\* kline message.
PairMsgs == 3

InitPair == InitFor(<<"A", "B">>)

MsgArrivePair(t) ==
    /\ msgCount < PairMsgs
    /\ MsgArrive(t)

NextPair ==
    \/ \E t \in Tasks : MsgArrivePair(t)
    \/ \E t \in Tasks : CheckMovementThreshold(t)
    \/ \E t \in Tasks : InExistingPosition(t)
    \/ \E t \in Tasks : SubmitMultipleOrders(t)
    \/ \E t \in Tasks : SubmitAnswered(t)
    \/ \E t \in Tasks : ClosePosition(t)
    \/ \E t \in Tasks : CalculateTriggers(t)
    \/ \E t \in Tasks : CheckTriggers(t)
    \/ \E t \in Tasks : PlaceTrailStopLoss(t)
    \/ \E t \in Tasks : PopLadder(t)
    \/ \E t \in Tasks : NextAccount(t)
    \/ \E t \in Tasks : ProcessCandles(t)
    \/ \E t \in Tasks : AppendCandle(t)
    \/ \E a \in AccountSet : HandleAccountUpdate(a)
    \/ \E a \in AccountSet : ExchangeStopHit(a)

SpecPair == InitPair /\ [][NextPair]_vars

\* ------------------------------------------------------ the trigger sweep
\* The ladder and the trigger runner on their own, as the repository's test
\* drives them: a position is opened at entry price E with movement threshold
\* mt, calculateTriggers builds its ladder, and checkTriggers is then called
\* once per price of a sweep in the direction of profit, each call awaited
\* before the next and every gateway call succeeding.
SweepInputs ==
    [E : {500, 1000}, mt : {20, 100, 9990}, side : {"BUY", "SELL"}]

\* the k-th price of the sweep, two ticks further than the one before
SweepPrice(E, dir, k) == IF dir = "long" THEN E + 2 * k ELSE E - 2 * k

\* the position just entered and reported open, calculateTriggers about to run
InitSweep ==
    /\ accounts = <<"A">>
    /\ \E in \in SweepInputs :
          LET dir == IF in.side = "BUY" THEN "long" ELSE "short" IN
          /\ pos = [a \in {"A"} |->
                      [InitialPosition EXCEPT !.status = TRUE, !.entry_price = in.E,
                                              !.movement_threshold = in.mt]]
          /\ task = [t \in Tasks |->
                       IF t = "t1"
                       THEN [FreeTask EXCEPT !.pc = "calc", !.msg = Candle(in.E, in.E, FALSE),
                                             !.side = in.side, !.mt = in.mt,
                                             !.entryPrice = in.E, !.out = "ok_ok",
                                             !.stopPrice = EntryStop(in.E, in.side, in.mt)]
                       ELSE FreeTask]
          /\ exPos = [a \in {"A"} |-> dir]
          /\ exStop = [a \in {"A"} |-> EntryStop(in.E, in.side, in.mt)]
    /\ positionLocks = [a \in {"A"} |-> FALSE]
    /\ processingTriggers = [a \in {"A"} |-> FALSE]
    /\ symbolCandles = <<>>
    /\ running = "t1"
    /\ msgCount = 0
    /\ events = [a \in {"A"} |-> <<>>]
    /\ entries = [a \in {"A"} |-> 1]
    /\ placedOk = [a \in {"A"} |-> {}]
    /\ last = [kind |-> "init", acct |-> None]
    /\ SideInit

\* the next price of the sweep arrives once the call before it has returned
SweepTick(t) ==
    /\ running = None
    /\ \A u \in Tasks : task[u].pc = "free"
    /\ t = "t1"
    /\ msgCount < SweepLen
    /\ LET p == pos[accounts[1]]
           price == SweepPrice(p.entry_price, p.trigger_side, msgCount + 1)
       IN  task' = SetTask(t, [FreeTask EXCEPT !.pc = "cmt",
                                  !.msg = Candle(p.entry_price, price, FALSE)])
    /\ running' = t
    /\ msgCount' = msgCount + 1
    /\ Did("msg", None)
    /\ UNCHANGED <<accounts, pos, positionLocks, processingTriggers, symbolCandles,
                   exPos, exStop, events, entries, placedOk>>
    /\ UNCHANGED sideVars

NextSweep ==
    \/ \E t \in Tasks : SweepTick(t)
    \/ \E t \in Tasks : CheckMovementThreshold(t)
    \/ \E t \in Tasks : CalculateTriggers(t)
    \/ \E t \in Tasks : CheckTriggers(t)
    \/ \E t \in Tasks : PlaceTrailStopLoss(t) /\ last'.kind = "stop_placed"
    \/ \E t \in Tasks : PopLadder(t)
    \/ \E t \in Tasks : NextAccount(t)

SpecSweep == InitSweep /\ [][NextSweep]_vars

\* ------------------------------------------------------ the candle history
\* The history on its own, from the start of main(): the backfill from REST,
\* then the kline stream.  Klines carry their open time; the stream's candles
\* have open = close, so the detector stays quiet and no position is entered.
Kline(T, o, c, x) == [openTime |-> T, open |-> o, close |-> c, x |-> x]

\* `limit` of GET /fapi/v1/klines, the same number as addCandleToQueue's maxLength
RestLimit == HistCap
RestCloses == {1000, 1020}
\* what fetchInitialCandles returns: [] on a failure, else the most recent
\* klines in order of open time, the last of them closed or still in progress
RestAnswers ==
    {<<>>} \cup
    UNION { { [i \in 1..n |-> Kline(i, 1000, cl[i], i < n \/ closed)] :
                 cl \in [1..n -> RestCloses], closed \in BOOLEAN } : n \in 1..RestLimit }

\* main(): for (const candle of candles) addCandleToQueue(symbolCandles[symbol], candle)
RECURSIVE AddCandlesToQueue(_, _)
AddCandlesToQueue(candles, new) ==
    IF new = <<>> THEN candles
    ELSE AddCandlesToQueue(AddCandleToQueue(candles, Head(new), HistCap), Tail(new))

\* main() awaits the REST answer; the kline stream is not subscribed yet
InitHistory ==
    /\ accounts = <<"A">>
    /\ pos = [a \in {"A"} |-> InitialPosition]
    /\ positionLocks = [a \in {"A"} |-> FALSE]
    /\ processingTriggers = [a \in {"A"} |-> FALSE]
    /\ symbolCandles = <<>>
    /\ task = [t \in Tasks |-> FreeTask]
    /\ running = "main"
    /\ msgCount = 0
    /\ exPos = [a \in {"A"} |-> "flat"]
    /\ exStop = [a \in {"A"} |-> Null]
    /\ events = [a \in {"A"} |-> <<>>]
    /\ entries = [a \in {"A"} |-> 0]
    /\ placedOk = [a \in {"A"} |-> {}]
    /\ last = [kind |-> "init", acct |-> None]
    /\ SideInit

\* main(): the REST answer arrives, its klines are added, the stream is subscribed
FetchInitialCandles ==
    /\ running = "main"
    /\ \E candles \in RestAnswers :
          symbolCandles' = AddCandlesToQueue(symbolCandles, candles)
    /\ running' = None
    /\ Did("backfilled", None)
    /\ UNCHANGED <<accounts, pos, positionLocks, processingTriggers, task, msgCount,
                   exPos, exStop, events, entries, placedOk>>
    /\ UNCHANGED sideVars

\* the open time of the kline the exchange has in progress, as far as the
\* history tells: the stream sends a kline's updates, then the kline closed,
\* then later klines
OpenTimeInProgress ==
    IF symbolCandles = <<>> THEN msgCount + 1
    ELSE LET k == symbolCandles[Len(symbolCandles)] IN
         IF k.x THEN k.openTime + 1 ELSE k.openTime

\* wsClient.on('message'): candle.openTime = kline.t
KlineArrive(t) ==
    /\ running = None
    /\ task[t].pc = "free"
    /\ t = "t2" => task["t1"].pc # "free"
    /\ msgCount < MaxMsgs
    /\ \E T \in OpenTimeInProgress..(OpenTimeInProgress + MaxGap), x \in BOOLEAN :
          task' = SetTask(t, [FreeTask EXCEPT !.pc = "cmt", !.msg = Kline(T, 1000, 1000, x)])
    /\ running' = t
    /\ msgCount' = msgCount + 1
    /\ Did("msg", None)
    /\ UNCHANGED <<accounts, pos, positionLocks, processingTriggers, symbolCandles,
                   exPos, exStop, events, entries, placedOk>>
    /\ UNCHANGED sideVars

NextHistory ==
    \/ FetchInitialCandles
    \/ \E t \in Tasks : KlineArrive(t)
    \/ \E t \in Tasks : CheckMovementThreshold(t)
    \/ \E t \in Tasks : CheckTriggers(t)
    \/ \E t \in Tasks : NextAccount(t)
    \/ \E t \in Tasks : ProcessCandles(t)
    \/ \E t \in Tasks : AppendCandle(t)

SpecHistory == InitHistory /\ [][NextHistory]_vars

\* the same start with two accounts in config.accounts
InitAccounts ==
    /\ accounts = <<"A", "B">>
    /\ pos = [a \in {"A", "B"} |-> InitialPosition]
    /\ positionLocks = [a \in {"A", "B"} |-> FALSE]
    /\ processingTriggers = [a \in {"A", "B"} |-> FALSE]
    /\ symbolCandles = <<>>
    /\ task = [t \in Tasks |-> FreeTask]
    /\ running = "main"
    /\ msgCount = 0
    /\ exPos = [a \in {"A", "B"} |-> "flat"]
    /\ exStop = [a \in {"A", "B"} |-> Null]
    /\ events = [a \in {"A", "B"} |-> <<>>]
    /\ entries = [a \in {"A", "B"} |-> 0]
    /\ placedOk = [a \in {"A", "B"} |-> {}]
    /\ last = [kind |-> "init", acct |-> None]
    /\ SideInit

SpecAccounts == InitAccounts /\ [][NextHistory]_vars

\* ------------------------------------------------------ the kline stream's connection
\* The 'open' and 'close' handlers of the websocket client on their own: the
\* client emits the two events in any order.
MAX_RECONNECT_ATTEMPTS == 5

\* wsClient.on('open')
WsOpen ==
    /\ wsReconnectAttempts' = 0
    /\ UNCHANGED <<closeHandlers, closeCount, engineVars, refVars, fileVars, gatewayVars, entryVars, closeVars, ladderVars, storeVars>>

\* wsClient.on('close') up to its delay: the counter is tested here
WsClose ==
    /\ closeCount < MaxCloses
    /\ closeCount' = closeCount + 1
    /\ closeHandlers' = IF wsReconnectAttempts < MAX_RECONNECT_ATTEMPTS
                        THEN closeHandlers + 1
                        ELSE closeHandlers
    /\ UNCHANGED <<wsReconnectAttempts, engineVars, refVars, fileVars, gatewayVars, entryVars, closeVars, ladderVars, storeVars>>

\* wsClient.on('close') after its delay: re-subscribe every pair, then count
WsResubscribe ==
    /\ closeHandlers > 0
    /\ closeHandlers' = closeHandlers - 1
    /\ wsReconnectAttempts' = wsReconnectAttempts + 1
    /\ UNCHANGED <<closeCount, engineVars, refVars, fileVars, gatewayVars, entryVars, closeVars, ladderVars, storeVars>>

NextReconnect ==
    \/ WsOpen
    \/ WsClose
    \/ WsResubscribe

SpecReconnect == Init /\ [][NextReconnect]_vars

\* ------------------------------------------------------ the account manager
\* AccountManager at the level of references, for one position with the
\* fields lock_close_price and triggers: what getPositionData hands out, what
\* updatePosition replaces, and what saveAccountData writes.

\* the value reachable from a position object
Deref(ref) ==
    [lock_close_price |-> positionObjects[ref].lock_close_price,
     triggers |-> lists[positionObjects[ref].triggers]]

\* Partial<Position> arguments of updatePosition
Patches ==
    { [lock_close_price |-> 1000], [lock_close_price |-> 1100],
      [triggers |-> <<>>], [triggers |-> <<1010>>] }

\* getPositionData: return account.positions[symbol]
GetPositionData ==
    /\ heldRef' = storedRef
    /\ UNCHANGED <<positionObjects, lists, storedRef, fileVars, engineVars, wsVars, gatewayVars, entryVars, closeVars, ladderVars, storeVars>>

\* updatePosition: positions[symbol] = {...positions[symbol], ...updates},
\* then saveAccountData: fs.writeFile(path, JSON.stringify(accountData), callback)
UpdatePositionAndSave ==
    /\ Len(positionObjects) < MaxAllocs
    /\ \E updates \in Patches :
          LET old == positionObjects[storedRef] IN
          IF "triggers" \in DOMAIN updates
          THEN /\ lists' = Append(lists, updates.triggers)
               /\ positionObjects' = Append(positionObjects,
                                            [old EXCEPT !.triggers = Len(lists) + 1])
          ELSE /\ positionObjects' = Append(positionObjects,
                     [old EXCEPT !.lock_close_price = updates.lock_close_price])
               /\ UNCHANGED lists
    /\ storedRef' = Len(positionObjects) + 1
    /\ pendingWrites' = pendingWrites \cup {Deref(storedRef)'}
    /\ UNCHANGED <<heldRef, disk, engineVars, wsVars, gatewayVars, entryVars, closeVars, ladderVars, storeVars>>

\* fs.writeFile completes: the calls in flight finish in any order
WriteFileDone ==
    /\ \E doc \in pendingWrites :
          /\ disk' = doc
          /\ pendingWrites' = pendingWrites \ {doc}
    /\ UNCHANGED <<refVars, engineVars, wsVars, gatewayVars, entryVars, closeVars, ladderVars, storeVars>>

\* a caller assigns to a field of the object it was handed
CallerSetsField ==
    /\ heldRef # 0
    /\ \E v \in {1000, 1100} :
          /\ v # positionObjects[heldRef].lock_close_price
          /\ positionObjects' = [positionObjects EXCEPT ![heldRef].lock_close_price = v]
    /\ UNCHANGED <<lists, storedRef, heldRef, fileVars, engineVars, wsVars, gatewayVars, entryVars, closeVars, ladderVars, storeVars>>

\* a caller pushes onto the triggers list of the object it was handed
CallerPushes ==
    /\ heldRef # 0
    /\ Len(lists[positionObjects[heldRef].triggers]) < LadderCount
    /\ lists' = [lists EXCEPT ![positionObjects[heldRef].triggers] = Append(@, 1010)]
    /\ UNCHANGED <<positionObjects, storedRef, heldRef, fileVars, engineVars, wsVars, gatewayVars, entryVars, closeVars, ladderVars, storeVars>>

\* the account manager and a caller that keeps what it was handed
NextSnapshot ==
    \/ GetPositionData
    \/ UpdatePositionAndSave
    \/ CallerSetsField
    \/ CallerPushes

SpecSnapshot == Init /\ [][NextSnapshot]_vars

\* the account manager and the file system
NextSave ==
    \/ UpdatePositionAndSave
    \/ WriteFileDone

SpecSave == Init /\ [][NextSave]_vars

\* AccountManager.updatePosition over several accounts and symbols, called
\* with names it knows and with names it does not know.
MaxUpdates == 2

\* the account and symbol arguments of the calls
CallAccounts == StoreAccounts \cup {"C"}
CallSymbols == StoreSymbols \cup {"XRPUSDT"}

\* Partial<Position> arguments: any choice of fields, each with a value
PositionPatches ==
    { [f \in fields |-> [status |-> st, entry_price |-> ep, triggers |-> tr][f]] :
         st \in BOOLEAN, ep \in {Null, 1000}, tr \in {<<>>, <<1010>>},
         fields \in SUBSET DOMAIN StoredPosition }

\* {...positions[symbol], ...updates}
Spread(old, updates) ==
    [f \in DOMAIN old \cup DOMAIN updates |->
        IF f \in DOMAIN updates THEN updates[f] ELSE old[f]]

\* updatePosition as it would be if it stored the patch over a fresh position
UpdatePositionCallReplacing ==
    /\ lastCall.n < MaxUpdates
    /\ \E account \in CallAccounts, symbol \in CallSymbols, updates \in PositionPatches :
          /\ IF account \notin DOMAIN accountData
                \/ symbol \notin DOMAIN accountData[account]
             THEN /\ lastCall' = [n |-> lastCall.n + 1, account |-> account,
                                  symbol |-> symbol, updates |-> updates,
                                  result |-> "threw"]
                  /\ UNCHANGED <<accountData, saveCalls>>
             ELSE /\ accountData' = [accountData EXCEPT ![account][symbol] =
                                        Spread(StoredPosition, updates)]
                  /\ saveCalls' = saveCalls + 1
                  /\ lastCall' = [n |-> lastCall.n + 1, account |-> account,
                                  symbol |-> symbol, updates |-> updates,
                                  result |-> "returned"]
    /\ UNCHANGED <<engineVars, wsVars, refVars, fileVars, gatewayVars, entryVars, closeVars, ladderVars>>

\* updatePosition(accountName, symbol, updates): the two existence tests, the
\* spread, then saveAccountData
UpdatePositionCall ==
    /\ lastCall.n < MaxUpdates
    /\ \E account \in CallAccounts, symbol \in CallSymbols, updates \in PositionPatches :
          /\ IF account \notin DOMAIN accountData
                \/ symbol \notin DOMAIN accountData[account]
             THEN /\ lastCall' = [n |-> lastCall.n + 1, account |-> account,
                                  symbol |-> symbol, updates |-> updates,
                                  result |-> "threw"]
                  /\ UNCHANGED <<accountData, saveCalls>>
             ELSE /\ accountData' = [accountData EXCEPT ![account][symbol] =
                                        Spread(@, updates)]
                  /\ saveCalls' = saveCalls + 1
                  /\ lastCall' = [n |-> lastCall.n + 1, account |-> account,
                                  symbol |-> symbol, updates |-> updates,
                                  result |-> "returned"]
    /\ UNCHANGED <<engineVars, wsVars, refVars, fileVars, gatewayVars, entryVars, closeVars, ladderVars>>

NextStore == UpdatePositionCall

SpecStore == Init /\ [][NextStore]_vars

\* ------------------------------------------------------ the trailing stop at the gateway
\* placeTrailStopLoss on its own, call after call, against the exchange's
\* list of open orders; every gateway call succeeds.  Prices are in units of
\* the ladder's precision (toFixed(8)); the symbol's pricePrecision is coarser.

\* units of the ladder's precision in one step of the symbol's pricePrecision
PriceStep == 10
\* roundToPrecision(value, pricePrecision): parseFloat(value.toFixed(precision))
RoundToPrecision(value) == RoundDiv(value, PriceStep) * PriceStep

\* stop prices a ladder may hold
TrailStopPrices == {9900, 9904, 10010}

\* placeTrailStopLoss(symbol, forSide, stopPrice) is called: getAllOpenOrders is sent
TrailCall ==
    /\ trail.pc = "idle"
    /\ trail.calls < MaxTrailCalls
    /\ \E forSide \in {"BUY", "SELL"}, stopPrice \in TrailStopPrices :
          trail' = [pc |-> "orders", forSide |-> forSide, stopPrice |-> stopPrice,
                    calls |-> trail.calls + 1, cancels |-> 0, submits |-> 0,
                    prevSide |-> trail.forSide, prevStopPrice |-> trail.stopPrice]
    /\ UNCHANGED <<openOrders, engineVars, wsVars, refVars, fileVars, entryVars, closeVars, ladderVars, storeVars>>

\* the open orders arrive: an existing STOP_MARKET with Number(stopPrice) === stopPrice?
TrailOpenOrdersAnswered ==
    /\ trail.pc = "orders"
    /\ LET existingStopLoss ==
              \E i \in 1..Len(openOrders) :
                  /\ openOrders[i].type = "STOP_MARKET"
                  /\ openOrders[i].stopPrice = trail.stopPrice
       IN  trail' = [trail EXCEPT !.pc = IF existingStopLoss THEN "idle" ELSE "cancel"]
    /\ UNCHANGED <<openOrders, engineVars, wsVars, refVars, fileVars, entryVars, closeVars, ladderVars, storeVars>>

\* cancelAllOrder: cancelAllOpenOrders is answered
TrailCancelAnswered ==
    /\ trail.pc = "cancel"
    /\ openOrders' = <<>>
    /\ trail' = [trail EXCEPT !.pc = "submit", !.cancels = @ + 1]
    /\ UNCHANGED <<engineVars, wsVars, refVars, fileVars, entryVars, closeVars, ladderVars, storeVars>>

\* submitNewOrder(stopLossParams) is answered; placeTrailStopLoss returns true
TrailSubmitAnswered ==
    /\ trail.pc = "submit"
    /\ openOrders' = Append(openOrders,
                            [type |-> "STOP_MARKET",
                             side |-> IF trail.forSide = "BUY" THEN "SELL" ELSE "BUY",
                             stopPrice |-> RoundToPrecision(trail.stopPrice),
                             closePosition |-> TRUE])
    /\ trail' = [trail EXCEPT !.pc = "idle", !.submits = @ + 1]
    /\ UNCHANGED <<engineVars, wsVars, refVars, fileVars, entryVars, closeVars, ladderVars, storeVars>>

NextTrailStop ==
    \/ TrailCall
    \/ TrailOpenOrdersAnswered
    \/ TrailCancelAnswered
    \/ TrailSubmitAnswered

SpecTrailStop == Init /\ [][NextTrailStop]_vars

\* ------------------------------------------------------ the entry quantity

\* quantities are integers in units of 10^-quantityPrecision
QuantityUnit == 10

\* the ticks, thresholds (in 0.01 %) and amounts an entry is called with
EntryPrices == {900, 1000, 1100, 1250, 2000}
EntryThresholds == {50, 100, 200, 500}
EntryAmounts == {1000, 5000}

\* checkMovementThreshold: the breach calls placePositionWithStopLoss with the
\* stop  currentPrice * (1 -+ movementThreshold / 100), kept here as the
\* numerator over 10000 because the stop is not rounded before it is passed
EntryCall ==
    /\ entryOrder.pc = "idle"
    /\ \E p \in EntryPrices, mt \in EntryThresholds, u \in EntryAmounts,
          side \in {"BUY", "SELL"} :
          entryOrder' = [pc |-> "called", side |-> side, usdtAmount |-> u,
                         currentPrice |-> p, movementThreshold |-> mt,
                         stopPriceNum |-> IF side = "BUY" THEN p * (10000 - mt)
                                                          ELSE p * (10000 + mt),
                         quantity |-> 0]
    /\ UNCHANGED <<engineVars, wsVars, refVars, fileVars, gatewayVars, closeVars, ladderVars, storeVars>>

\* placePositionWithStopLoss: currentPrice = stopPrice / (1 -+ 0.01), then
\* calculateQuantity: roundToPrecision(usdtAmount / currentPrice); with
\* stopPrice = stopPriceNum / 10000 the quotient is
\* usdtAmount * 100 * (100 -+ 1) / stopPriceNum
EntryQuantity ==
    /\ entryOrder.pc = "called"
    /\ LET factor == IF entryOrder.side = "BUY" THEN 99 ELSE 101 IN
       entryOrder' = [entryOrder EXCEPT
                        !.pc = "ordered",
                        !.quantity = RoundDiv(entryOrder.usdtAmount * 100 * factor
                                                 * QuantityUnit,
                                              entryOrder.stopPriceNum)]
    /\ UNCHANGED <<engineVars, wsVars, refVars, fileVars, gatewayVars, closeVars, ladderVars, storeVars>>

\* placePositionWithStopLoss returns
EntryReturn ==
    /\ entryOrder.pc = "ordered"
    /\ entryOrder' = NoEntryOrder
    /\ UNCHANGED <<engineVars, wsVars, refVars, fileVars, gatewayVars, closeVars, ladderVars, storeVars>>

NextEntry == EntryCall \/ EntryQuantity \/ EntryReturn

SpecEntry == Init /\ [][NextEntry]_vars

\* ------------------------------------------------------ closing at the gateway

\* position amounts are integers in tenths of the quantity step
AmtStep == 10

\* what getPositionsV3({symbol}) can answer: one entry in one-way mode, a
\* LONG and a SHORT entry in hedge mode
PositionAnswers ==
    {<<[positionSide |-> "BOTH", positionAmt |-> a]>> :
        a \in {-33, -25, -7, 0, 12, 30, 41}}
    \cup {<<[positionSide |-> "LONG", positionAmt |-> a],
            [positionSide |-> "SHORT", positionAmt |-> b]>> :
        a \in {0, 12, 30, 41}, b \in {0, -7, -25, -33}}

\* roundToPrecision(Math.abs(positionAmt), quantityPrecision)
RoundedQty(amt) == RoundDiv(Abs(amt), AmtStep) * AmtStep

\* closePosition: the answer of getPositionsV3
CloseFetch ==
    /\ closing.pc = "idle"
    /\ \E answer \in PositionAnswers :
          closing' = [pc |-> "loop", position |-> answer, i |-> 1, sent |-> <<>>]
    /\ UNCHANGED <<engineVars, wsVars, refVars, fileVars, gatewayVars, entryVars, ladderVars, storeVars>>

\* closePosition: one turn of  for (const pos of position)
CloseExamine ==
    /\ closing.pc = "loop"
    /\ IF closing.i > Len(closing.position)
       THEN \* NO_POSITION is logged, the call returns
            closing' = [closing EXCEPT !.pc = "returned"]
       ELSE LET p == closing.position[closing.i] IN
            IF p.positionAmt # 0
            THEN closing' = [closing EXCEPT
                               !.pc = "submit",
                               !.sent = Append(@,
                                   [side |-> IF p.positionAmt > 0 THEN "SELL" ELSE "BUY",
                                    type |-> "MARKET",
                                    quantity |-> RoundedQty(p.positionAmt),
                                    positionSide |-> p.positionSide])]
            ELSE closing' = [closing EXCEPT !.i = @ + 1]
    /\ UNCHANGED <<engineVars, wsVars, refVars, fileVars, gatewayVars, entryVars, ladderVars, storeVars>>

\* closePosition: the answer of submitNewOrder; POSITION_CLOSED is logged and
\* the call returns from inside the loop, or the error is logged and rethrown
CloseSubmitAnswered ==
    /\ closing.pc = "submit"
    /\ \E ok \in BOOLEAN :
          closing' = [closing EXCEPT !.pc = IF ok THEN "returned" ELSE "threw"]
    /\ UNCHANGED <<engineVars, wsVars, refVars, fileVars, gatewayVars, entryVars, ladderVars, storeVars>>

\* the caller goes on
CloseOver ==
    /\ closing.pc \in {"returned", "threw"}
    /\ closing' = NotClosing
    /\ UNCHANGED <<engineVars, wsVars, refVars, fileVars, gatewayVars, entryVars, ladderVars, storeVars>>

NextClose == CloseFetch \/ CloseExamine \/ CloseSubmitAnswered \/ CloseOver

SpecClose == Init /\ [][NextClose]_vars

\* ------------------------------------------------------ the full ladder

\* calculateTriggers(..., count: number = 20)
DefaultCount == 20

\* entry prices (in ticks) and movement thresholds (in 0.01 %) of the calls
LadderEntries == {1000, 1500, 2000, 2500, 3000}
LadderThresholds == {10, 20, 50, 100, 150, 200}

\* calculateTriggers is called for an open position
LadderCall ==
    /\ built.pc = "idle"
    /\ \E E \in LadderEntries, mt \in LadderThresholds, dir \in {"long", "short"} :
          built' = [NoLadder EXCEPT !.pc = "called", !.entryPrice = E,
                                    !.direction = dir, !.movement_threshold = mt]
    /\ UNCHANGED <<engineVars, wsVars, refVars, fileVars, gatewayVars, entryVars, closeVars, storeVars>>

\* calculateTriggers: the loop  for (let i = 1; i <= count; i++)  and the store
LadderBuild ==
    /\ built.pc = "called"
    /\ built' = [built EXCEPT
                   !.pc = "stored",
                   !.triggers = LadderTriggers(built.entryPrice, built.direction,
                                               built.movement_threshold, DefaultCount),
                   !.stop_prices = LadderStops(built.entryPrice, built.direction,
                                               built.movement_threshold,
                                               pairConfig.fees_exemption_percentage,
                                               DefaultCount)]
    /\ UNCHANGED <<engineVars, wsVars, refVars, fileVars, gatewayVars, entryVars, closeVars, storeVars>>

\* the position is closed and cleared
LadderCleared ==
    /\ built.pc = "stored"
    /\ built' = NoLadder
    /\ UNCHANGED <<engineVars, wsVars, refVars, fileVars, gatewayVars, entryVars, closeVars, storeVars>>

NextLadder == LadderCall \/ LadderBuild \/ LadderCleared

SpecLadder == Init /\ [][NextLadder]_vars

\* ------------------------------------------------------------- vocabulary
\* The spec's four-valued status, read off the record and the entry lock:
\* open = status; otherwise idle while no lock price is set; otherwise entering
\* while placePositionWithStopLoss holds the entry lock, and armed when it does not.
StatusOf(a) ==
    IF pos[a].status THEN "open"
    ELSE IF ~Truthy(pos[a].lock_close_price) THEN "idle"
    ELSE IF positionLocks[a] THEN "entering"
    ELSE "armed"

\* the tasks inside the locked part of checkTriggers for account a
Advancing(a) == {t \in Tasks : task[t].pc \in {"place", "pop"} /\ Acct(t) = a}

\* ------------------------------------------------------------------ claims

\* C1: checkTriggers removes the head of triggers and stop_prices only after a
\* placeTrailStopLoss call for the head's stop price returned success in this
\* advance, and an advance whose placement fails leaves the position as it was;
\* nothing but checkTriggers' pop, calculateTriggers and the user stream ever
\* writes the two lists.
C1_PopOnlyAfterPlacement ==
    [][\A a \in AccountSet :
          /\ (\E t \in Tasks : PopLadder(t) /\ Acct(t) = a)
                => \E t \in Tasks : /\ task[t].pc = "pop" /\ Acct(t) = a
                                    /\ task[t].stopPrices[1] \in placedOk[a]
                                    /\ pos'[a].triggers = Tail(task[t].triggers)
                                    /\ pos'[a].stop_prices = Tail(task[t].stopPrices)
          /\ (last'.kind = "stop_failed" /\ last'.acct = a) => pos'[a] = pos[a]
          /\ (pos'[a].triggers # pos[a].triggers \/ pos'[a].stop_prices # pos[a].stop_prices)
                => \/ \E t \in Tasks : PopLadder(t) /\ Acct(t) = a
                   \/ last'.kind \in {"ladder_stored", "update_flat"}
      ]_vars
\* a pop has just happened after a placement the gateway answered with success
C1_Witness ==
    \E a \in AccountSet :
       /\ last = [kind |-> "ladder_popped", acct |-> a]
       /\ placedOk[a] # {}
       /\ Len(pos[a].triggers) = LadderCount - 1

\* C2: while one tick's placeTrailStopLoss is pending for an account, no second
\* tick enters the advance: at most one handler is between taking the trigger
\* lock and releasing it, and it holds the lock.
C2_SingleAdvance ==
    \A a \in AccountSet :
       /\ Cardinality(Advancing(a)) <= 1
       /\ Advancing(a) # {} => processingTriggers[a]
\* a second tick that also reaches triggers[0] has just returned at the lock
C2_Witness ==
    \E a \in AccountSet :
       /\ last = [kind |-> "trigger_contended", acct |-> a]
       /\ \E t \in Tasks : task[t].pc = "place" /\ Acct(t) = a

\* C3: at most one MARKET entry is accepted for an account between the position
\* being armed and its next return to idle (an entry the engine has rolled back
\* with closePosition is not counted).
C3_AtMostOneEntry == \A a \in AccountSet : entries[a] <= 1

\* C4: a firing detector leaves the position of an account that is open or
\* entering completely unchanged.
C4_NoRearmWhileOpen ==
    [][\A t \in Tasks :
          (ProcessCandles(t) /\ StatusOf(Acct(t)) \in {"open", "entering"})
             => pos'[Acct(t)] = pos[Acct(t)]]_vars

\* C5: an open position has entry_price > 0 and trigger_side long or short.
C5_OpenHasPriceAndSide ==
    \A a \in AccountSet :
       pos[a].status => pos[a].entry_price > 0 /\ pos[a].trigger_side \in {"long", "short"}

\* C6: an idle or armed position has empty triggers and empty stop_prices.
C6_NoLadderUnlessEntered ==
    \A a \in AccountSet :
       StatusOf(a) \in {"idle", "armed"}
          => pos[a].triggers = <<>> /\ pos[a].stop_prices = <<>>

\* C7: triggers and stop_prices always have the same length.
C7_SameLength ==
    \A a \in AccountSet : Len(pos[a].triggers) = Len(pos[a].stop_prices)
\* a ladder that has been stored and advanced once
C7_Witness ==
    \E a \in AccountSet :
       /\ last = [kind |-> "ladder_popped", acct |-> a]
       /\ Len(pos[a].triggers) >= 1

\* C8: a user-stream report of amount 0 leaves the position fully cleared
\* whatever it was before; a report of a non-zero amount records entry_price and
\* marks the position open, leaving every other field alone.
C8_AccountUpdate ==
    [][\A a \in AccountSet :
          HandleAccountUpdate(a) =>
             IF Head(events[a]).amt = "flat"
             THEN /\ pos'[a] = [InitialPosition EXCEPT !.is_placing_stop_loss_running =
                                    pos[a].is_placing_stop_loss_running]
                  /\ StatusOf(a)' = "idle"
             ELSE /\ pos'[a] = [pos[a] EXCEPT !.status = TRUE,
                                              !.entry_price = Head(events[a]).entryPrice]
                  /\ pos'[a].entry_price > 0
                  /\ StatusOf(a)' = "open"
      ]_vars
\* the exchange has reported flat while a ladder advance was in flight (mid-ladder)
C8_Witness ==
    \E a \in AccountSet :
       /\ last = [kind |-> "update_flat", acct |-> a]
       /\ pos[a] = InitialPosition
       /\ \E t \in Tasks : task[t].pc = "place" /\ Acct(t) = a /\ task[t].triggers # <<>>

\* C9: every status change is a step of idle -> armed -> entering -> open -> idle
\* or a collapse to idle on an exchange-reported flat position (the entry
\* engine's own rollback entering -> armed is not held against the claim).
StatusSteps ==
    {<<"idle", "armed">>, <<"armed", "entering">>, <<"entering", "open">>,
     <<"open", "idle">>, <<"entering", "armed">>}
C9_StatusOrder ==
    [][\A a \in AccountSet :
          \/ StatusOf(a)' = StatusOf(a)
          \/ <<StatusOf(a), StatusOf(a)'>> \in StatusSteps
          \/ StatusOf(a)' = "idle" /\ last'.kind = "update_flat"
      ]_vars

\* C10: every armed position (lock set, not open) has lock_close_price > 0 and
\* movement_threshold > 0.
C10_ArmedHasThreshold ==
    \A a \in AccountSet :
       (Truthy(pos[a].lock_close_price) /\ ~pos[a].status)
          => pos[a].lock_close_price > 0 /\ pos[a].movement_threshold > 0

\* C11: when the placement of the trailing stop fails in a ladder advance
\* (the gateway call raises an error; placeTrailStopLoss has no other way to
\* fail), checkTriggers calls closePosition before it returns: the handler's
\* next step is the wait for closePosition, not the end of checkTriggers.
C11_CloseAfterFailedAdvance ==
    [][\A t \in Tasks :
          (PlaceTrailStopLoss(t) /\ last'.kind = "stop_failed")
             => task'[t].pc = "close"]_vars

\* C12: within one ladder advance a failed placeTrailStopLoss attempt is
\* followed by another attempt unless it was the third, and no advance makes
\* more than three attempts.
C12_RetryUpToThree ==
    [][\A t \in Tasks :
          /\ task[t].pc = "place" => task[t].retryCount < 3
          /\ (PlaceTrailStopLoss(t) /\ last'.kind = "stop_failed"
                /\ task[t].retryCount < 2)
                => /\ task'[t].pc = "place"
                   /\ task'[t].retryCount = task[t].retryCount + 1
      ]_vars

C14_FailedEntryRevertsToArmed ==
    [][\A t \in Tasks :
          LET a == Acct(t) IN
          ((InExistingPosition(t) \/ ClosePosition(t))
             /\ last'.kind \in {"position_exists", "entry_rolled_back",
                                "entry_error_escaped"}
             /\ exPos'[a] = "flat")
             => /\ ~positionLocks'[a]
                /\ StatusOf(a)' = "armed"
                /\ pos'[a].lock_close_price = task[t].lockClosePrice
                /\ pos'[a].movement_threshold = task[t].mt
      ]_vars

StrictlyIncreasing(s) == \A i \in 1..(Len(s) - 1) : s[i] < s[i + 1]
StrictlyDecreasing(s) == \A i \in 1..(Len(s) - 1) : s[i] > s[i + 1]
C16_LadderMonotone ==
    \A a \in AccountSet :
       (pos[a].movement_threshold > 0 /\ pairConfig.fees_exemption_percentage >= 0)
          => /\ pos[a].trigger_side = "long"
                  => /\ StrictlyIncreasing(pos[a].triggers)
                     /\ StrictlyIncreasing(pos[a].stop_prices)
             /\ pos[a].trigger_side = "short"
                  => /\ StrictlyDecreasing(pos[a].triggers)
                     /\ StrictlyDecreasing(pos[a].stop_prices)

\* C17 vocabulary: the ladder calculateTriggers built for the position, the
\* triggers checkTriggers has removed from it, and whether every price of the
\* sweep so far passed at most one trigger of that ladder.
BuiltLadder(a) ==
    LadderTriggers(pos[a].entry_price, pos[a].trigger_side, pos[a].movement_threshold,
                   LadderCount)
RemovedTriggers(a) ==
    {BuiltLadder(a)[i] : i \in 1..(LadderCount - Len(pos[a].triggers))}
RemainingTriggers(a) == {pos[a].triggers[i] : i \in 1..Len(pos[a].triggers)}
OneTriggerPerPrice(a, k) ==
    \A j \in 1..k :
       Cardinality({i \in 1..LadderCount :
                      /\ SweepPrice(pos[a].entry_price, "long", j - 1) < BuiltLadder(a)[i]
                      /\ BuiltLadder(a)[i] <= SweepPrice(pos[a].entry_price, "long", j)}) <= 1
\* a checkTriggers call of the sweep has just returned for the long position of a
SweepCallReturned(t, a) ==
    /\ task[t].pc = "next" /\ Acct(t) = a
    /\ pos[a].status /\ pos[a].trigger_side = "long"

\* C17 as stated: after each checkTriggers call with price p of a non-decreasing
\* sweep over an open long position (gateway always succeeding), every trigger
\* already removed is <= p and every trigger still in the ladder is > p, so
\* that the ladder is empty once p has passed the last trigger.
C17_SweepAsStated ==
    \A t \in Tasks : \A a \in AccountSet :
       SweepCallReturned(t, a)
          => /\ \A x \in RemovedTriggers(a) : x <= Price(t)
             /\ \A x \in RemainingTriggers(a) : x > Price(t)

\* C17 as amended: a checkTriggers call removes the head of the ladder only;
\* after each call every removed trigger is <= p, and every remaining trigger
\* is > p as long as no price of the sweep passed more than one trigger at
\* once (then the ladder is empty once p has passed the last trigger).
C17_SweepOneTriggerPerCall ==
    \A t \in Tasks : \A a \in AccountSet :
       SweepCallReturned(t, a)
          => /\ \A x \in RemovedTriggers(a) : x <= Price(t)
             /\ OneTriggerPerPrice(a, msgCount)
                  => \A x \in RemainingTriggers(a) : x > Price(t)
\* the sweep has consumed the whole ladder, one trigger per call, and the last
\* call was made at a price that equals a trigger
C17_Witness ==
    \E t \in Tasks : \E a \in AccountSet :
       /\ SweepCallReturned(t, a)
       /\ OneTriggerPerPrice(a, msgCount)
       /\ pos[a].triggers = <<>>
       /\ RemovedTriggers(a) # {}
       /\ Price(t) \in RemovedTriggers(a)
\* C18: after any sequence of startup backfill and closed-candle appends the
\* history holds at most capacity candles, and an append to a full history
\* evicts exactly the oldest entry: the new history is the old one without its
\* first entry, followed by the new candle.
C18_BoundedFifo ==
    /\ [](Len(symbolCandles) <= HistCap)
    /\ [][\A t \in Tasks :
            (AppendCandle(t) /\ Len(symbolCandles) = HistCap)
               => symbolCandles' = Append(Tail(symbolCandles), task[t].msg)]_vars

\* a full history has taken an append and the backfill's oldest kline is gone
C18_Witness ==
    /\ last.kind = "appended"
    /\ Len(symbolCandles) = HistCap
    /\ symbolCandles[1].openTime > 1

\* C19: after any sequence of startup backfill and websocket closed-candle
\* appends the entries of the history are strictly ordered by open time: no
\* two entries share an open time and none is out of order.
C19_StrictlyChronological ==
    \A i \in 1..Len(symbolCandles) : \A j \in 1..Len(symbolCandles) :
        i < j => symbolCandles[i].openTime < symbolCandles[j].openTime

\* C20: an append adds a new entry only if the candle's open time is greater
\* than the last entry's; otherwise it replaces the last entry (so that the
\* same candle appended twice leaves what appending it once leaves).
C20_AppendOrReplace ==
    [][\A t \in Tasks :
         AppendCandle(t) =>
            LET h == symbolCandles
                c == task[t].msg
            IN  IF h = <<>> \/ c.openTime > h[Len(h)].openTime
                THEN /\ Len(symbolCandles') >= 1
                     /\ symbolCandles'[Len(symbolCandles')] = c
                     /\ \E k \in 0..1 :
                           SubSeq(symbolCandles', 1, Len(symbolCandles') - 1)
                              = SubSeq(h, 1 + k, Len(h))
                ELSE symbolCandles' = [h EXCEPT ![Len(h)] = c]]_vars

\* C21: on a closed candle c the detector fires exactly when current_diff >
\* dynamic_threshold (pair.threshold times the mean of the history's diffs) and
\* current_diff > past_sum (the sum of the last num_previous_candles diffs).
\* When it fires, an account that is neither entering (no entry call holds
\* the entry lock, whatever the record says) nor open gets
\* lock_close_price = c.close and movement_threshold = dynamic_threshold / 2
\* and is armed; when it does not fire no position changes.
C21_DetectorArms ==
    [][\A t \in Tasks :
         ProcessCandles(t) =>
            LET a == Acct(t)
                c == task[t].msg
                h == symbolCandles
                n == Len(h)
                sumDiffs == SumSeq(Diffs(h))
                pastSum == SumSeq(LastN(Diffs(h), pairConfig.num_previous_candles))
                fires == /\ n > 0
                         /\ Diff(c) * n > pairConfig.threshold * sumDiffs
                         /\ Diff(c) > pastSum
            IN  IF fires
                THEN /\ last'.kind = "detector_fired"
                     /\ (StatusOf(a) \notin {"entering", "open"} /\ ~positionLocks[a]) =>
                           /\ pos'[a].lock_close_price = c.close
                           /\ pos'[a].movement_threshold
                                 = (pairConfig.threshold * sumDiffs) \div (2 * n)
                           /\ StatusOf(a)' = "armed"
                ELSE /\ last'.kind # "detector_fired"
                     /\ pos' = pos]_vars

\* the detector fired on the closed candle 1000 -> 1100 and armed the account
C21_Witness ==
    /\ last.kind = "detector_fired"
    /\ \E a \in AccountSet :
          /\ StatusOf(a) = "armed"
          /\ pos[a].lock_close_price = 1100
          /\ pos[a].movement_threshold > 0

\* C22: the entry engine requests an entry only for a position that is armed
\* with lock_close_price and movement_threshold set; for an idle, entering or
\* open position, or an armed one without a movement threshold, a price tick
\* makes checkMovementThreshold submit no order and change no state.
C22_EntryOnlyWhenArmed ==
    [][\A t \in Tasks :
         CheckMovementThreshold(t) =>
            LET a == Acct(t) IN
            /\ last'.kind = "entry_locked" =>
                  /\ StatusOf(a) = "armed"
                  /\ pos[a].lock_close_price # Null
                  /\ pos[a].movement_threshold # Null
            /\ (StatusOf(a) # "armed" \/ ~Truthy(pos[a].movement_threshold)) =>
                  /\ task'[t].pc = "ct"
                  /\ UNCHANGED <<pos, positionLocks, processingTriggers, symbolCandles,
                                 exPos, exStop, events, entries>>]_vars

\* a tick that breaches the threshold of a position that is being entered
\* went by without an entry
C22_Witness ==
    /\ last.kind = "entry_contended"
    /\ StatusOf(last.acct) = "entering"

\* C23: for an armed position with lock L and movement threshold m, a tick
\* with price >= L(1+m) requests a BUY entry with protective stop price(1-m),
\* a tick with price <= L(1-m) requests a SELL entry with protective stop
\* price(1+m), and a tick strictly between the two requests no entry.
C23_EntryRequest ==
    [][\A t \in Tasks :
         (CheckMovementThreshold(t) /\ StatusOf(Acct(t)) = "armed") =>
            LET a == Acct(t)
                L == pos[a].lock_close_price
                m == pos[a].movement_threshold
                price == task[t].msg.close
            IN  IF price * 10000 >= L * (10000 + m)
                THEN /\ last'.kind = "entry_locked"
                     /\ task'[t].side = "BUY"
                     /\ task'[t].stopPrice = RoundDiv(price * (10000 - m), 10000)
                ELSE IF price * 10000 <= L * (10000 - m)
                THEN /\ last'.kind = "entry_locked"
                     /\ task'[t].side = "SELL"
                     /\ task'[t].stopPrice = RoundDiv(price * (10000 + m), 10000)
                ELSE /\ last'.kind = "no_entry"
                     /\ task'[t].pc = "ct"]_vars

\* C24: for any sequence of websocket close and open events at most
\* MAX_RECONNECT_ATTEMPTS re-subscriptions are made without an open event in
\* between (the counter, reset to 0 by every open event, counts them), and
\* once that many have been made no further re-subscription happens until the
\* next open event.
C24_ReconnectCap ==
    /\ [](wsReconnectAttempts <= MAX_RECONNECT_ATTEMPTS)
    /\ [][WsOpen => wsReconnectAttempts' = 0]_vars
    /\ [][WsResubscribe => wsReconnectAttempts < MAX_RECONNECT_ATTEMPTS]_vars

\* C25: for every kline message, an exception raised while one account is
\* processed never keeps the remaining accounts from being processed for that
\* message: a message handler ends only in a loop that has come to the last
\* account of config.accounts.
C25_RemainingAccountsProcessed ==
    [][\A t \in Tasks :
         (task[t].pc # "free" /\ task'[t].pc = "free")
            => task[t].acct = Len(accounts)]_vars

\* C26: when a closed candle arrives while the history is empty, only the
\* detector is skipped for that tick: no position is armed, and the handler
\* goes on (to the next account's detector, then to the append), so that the
\* candle is still appended to the history.
C26_MissingHistoryStillAppends ==
    [][\A t \in Tasks :
         (ProcessCandles(t) /\ symbolCandles = <<>>) =>
            /\ pos' = pos
            /\ task'[t].pc = IF task[t].acct < Len(accounts) THEN "det" ELSE "append"]_vars

\* C27: a value returned by getPositionData is a snapshot, never a live
\* reference: a later updatePosition call does not change it, and a caller
\* that mutates it (a field, or its triggers list) does not change the state
\* the account manager holds.
C27_SnapshotNotReference ==
    [][/\ (UpdatePositionAndSave /\ heldRef # 0) => Deref(heldRef)' = Deref(heldRef)
       /\ (CallerSetsField \/ CallerPushes) => Deref(storedRef)' = Deref(storedRef)]_vars

\* C28: once every save of a sequence of position mutations has completed,
\* the document in the account file equals the account state in memory (the
\* write that finishes last carries the latest mutation).
C28_FileEqualsMemory ==
    pendingWrites = {} => disk = Deref(storedRef)

\* C29: calculateTriggers(E, d, m, f, N) stores exactly N triggers and N stops
\* with, for long, trigger_i = E(1 + i*m) and stop_i = S_(i-1)(1 + m + f) from
\* the seed S_0 = E(1 - m - f), mirrored for short; triggers, stop_prices and
\* trigger_side = d are stored in one update that leaves the other fields
\* alone, and the arrays depend on the inputs only.  (S in tenths of a tick;
\* m is the position's movement threshold, without which the function throws.)
RECURSIVE RunningStop(_, _, _, _, _)
RunningStop(E, d, m, f, i) ==
    LET up == d = "long" IN
    IF i = 0
    THEN (E * (IF up THEN 10000 - m - f ELSE 10000 + m + f)) \div 1000
    ELSE RoundDiv(RunningStop(E, d, m, f, i - 1)
                     * (IF up THEN 10000 + m + f ELSE 10000 - m - f), 10000)
C29_LadderFormula ==
    [][\A t \in Tasks :
         (CalculateTriggers(t) /\ Truthy(pos[Acct(t)].movement_threshold)) =>
            LET a == Acct(t)
                E == task[t].entryPrice
                d == IF task[t].side = "BUY" THEN "long" ELSE "short"
                m == pos[a].movement_threshold
                f == pairConfig.fees_exemption_percentage
                N == LadderCount
            IN  /\ Len(pos'[a].triggers) = N
                /\ Len(pos'[a].stop_prices) = N
                /\ \A i \in 1..N :
                      /\ pos'[a].triggers[i]
                            = RoundDiv(E * (IF d = "long" THEN 10000 + i * m
                                            ELSE 10000 - i * m), 10000)
                      /\ pos'[a].stop_prices[i] = RoundDiv(RunningStop(E, d, m, f, i), 10)
                /\ pos'[a].trigger_side = d
                /\ \A fld \in DOMAIN pos[a] \ {"triggers", "stop_prices", "trigger_side"} :
                      pos'[a][fld] = pos[a][fld]]_vars

\* a long ladder of N triggers is stored at entry price 1000, threshold 1 %
C29_Witness ==
    /\ last.kind = "ladder_stored"
    /\ \E a \in AccountSet :
          /\ pos[a].trigger_side = "long"
          /\ pos[a].entry_price = 1000
          /\ pos[a].movement_threshold = 100
          /\ Len(pos[a].triggers) = LadderCount
          /\ pos[a].triggers[1] = 1010

\* C30: placeTrailStopLoss(symbol, side, p) returns success without cancelling
\* or submitting anything when a STOP_MARKET order with stop price p is open;
\* otherwise it cancels all open orders and then submits exactly one
\* STOP_MARKET closePosition order on the opposite side; a call that repeats
\* the call before it (same side, same ladder stop price p) leaves exactly one
\* stop order and submits nothing.
C30_TrailStopIdempotent ==
    [][(trail.pc # "idle" /\ trail'.pc = "idle") =>
          LET wasOpen == \E i \in 1..Len(openOrders) :
                            /\ openOrders[i].type = "STOP_MARKET"
                            /\ trail.pc = "orders"
                            /\ openOrders[i].stopPrice = trail.stopPrice
              repeats == /\ trail.prevSide = trail.forSide
                         /\ trail.prevStopPrice = trail.stopPrice
          IN  /\ IF wasOpen
                 THEN /\ trail'.cancels = 0 /\ trail'.submits = 0
                      /\ openOrders' = openOrders
                 ELSE /\ trail'.cancels = 1 /\ trail'.submits = 1
                      /\ Len(openOrders') = 1
                      /\ openOrders'[1].type = "STOP_MARKET"
                      /\ openOrders'[1].closePosition
                      /\ openOrders'[1].side # trail.forSide
              /\ repeats => /\ trail'.submits = 0
                            /\ Len(openOrders') = 1]_vars

\* C31: when an entry succeeds the ladder is computed only once the user
\* stream has reported the fill, and from the fill's entry_price: whenever
\* calculateTriggers stores a ladder the position is open with the reported
\* entry_price, and that price is the E the ladder is built from.
C31_LadderFromReportedFill ==
    [][\A t \in Tasks :
         (CalculateTriggers(t) /\ last'.kind = "ladder_stored") =>
            LET a == Acct(t) IN
            /\ pos[a].status
            /\ Truthy(pos[a].entry_price)
            /\ task[t].entryPrice = pos[a].entry_price]_vars

C33_QuantityFromTickPrice ==
    entryOrder.pc = "ordered" =>
        entryOrder.quantity
            = RoundDiv(entryOrder.usdtAmount * QuantityUnit, entryOrder.currentPrice)

\* C34: closePosition(symbol) sends, for each position of the symbol with a
\* non-zero amount, one MARKET order on the opposite side for the rounded
\* absolute amount (so a LONG and a SHORT position both non-zero get one
\* each), and no order when no position has a non-zero amount.
C34_OneCloseOrderPerOpenPosition ==
    closing.pc = "returned" =>
        LET open == {k \in 1..Len(closing.position) :
                        closing.position[k].positionAmt # 0}
            OrderFor(k) ==
                [side |-> IF closing.position[k].positionAmt > 0 THEN "SELL" ELSE "BUY",
                 type |-> "MARKET",
                 quantity |-> RoundedQty(closing.position[k].positionAmt),
                 positionSide |-> closing.position[k].positionSide]
        IN  /\ Len(closing.sent) = Cardinality(open)
            /\ \A k \in open :
                  Cardinality({j \in 1..Len(closing.sent) :
                                  closing.sent[j] = OrderFor(k)}) = 1

\* the positions of a handler inside checkMovementThreshold and the entry it makes
ArmCheckPcs == {"cmt", "exists", "submit", "submitted", "close", "calc"}

\* C35: for every kline message each account's checkMovementThreshold is over
\* before that account's checkTriggers starts, and on a closed candle the
\* candle is appended only after the detector has run for every account, so
\* that all the detector runs for the candle see one and the same history,
\* which does not yet hold the candle.
C35_ArmCheckThenRunnerThenAppend ==
    /\ [][\A t \in Tasks :
            /\ (task'[t].pc = "ct" /\ task[t].pc # "ct") =>
                  /\ task[t].pc \in ArmCheckPcs
                  /\ task'[t].acct = task[t].acct
                  /\ task'[t].msg = task[t].msg
            /\ (task'[t].pc = "cmt" /\ task'[t] # task[t]) =>
                  \/ task[t].pc = "free"
                  \/ task[t].pc = "next" /\ task'[t].acct = task[t].acct + 1
       ]_vars
    /\ [][\A t \in Tasks :
            /\ ProcessCandles(t) =>
                  /\ symbolCandles' = symbolCandles
                  /\ \A i \in 1..Len(symbolCandles) : symbolCandles[i] # task[t].msg
                  /\ task'[t].pc \in {"det", "append", "free"}
            /\ task[t].pc = "det" => symbolCandles' = symbolCandles
            /\ AppendCandle(t) =>
                  /\ task[t].msg.x
                  /\ task[t].acct = Len(accounts)
            /\ (task'[t].pc = "append" /\ task[t].pc # "append") =>
                  /\ task[t].pc = "det"
                  /\ task[t].acct = Len(accounts)
            /\ (task'[t].pc = "det" /\ task[t].pc # "det") =>
                  /\ task[t].pc = "next"
                  /\ task'[t].acct = 1
       ]_vars

\* the detector has run for both accounts on one closed candle and the candle
\* has just been appended
C35_Witness ==
    /\ Len(accounts) = 2
    /\ last.kind = "appended"
    /\ symbolCandles # <<>>
    /\ symbolCandles[Len(symbolCandles)].x

\* C36: the trigger lock is released on every path out of checkTriggers: the
\* lock of an account is held only while an invocation for it is between its
\* gateway call and its pop, every step that ends such an invocation leaves
\* the lock free, and so a tick that meets the fire condition when no
\* invocation is in progress takes the advance.
C36_TriggerLockReleased ==
    /\ [](\A a \in AccountSet : processingTriggers[a] => Advancing(a) # {})
    /\ [][\A t \in Tasks :
            /\ (task[t].pc \in {"place", "pop"} /\ task'[t].pc \notin {"place", "pop"})
                  => ~processingTriggers'[Acct(t)]
            /\ (CheckTriggers(t) /\ Advancing(Acct(t)) = {})
                  => last'.kind # "trigger_contended"]_vars

\* an advance failed at the gateway, the lock is free again, and the position is
\* still open with its ladder
C36_Witness ==
    /\ last.kind = "stop_failed"
    /\ \E a \in AccountSet :
          /\ ~processingTriggers[a]
          /\ pos[a].status
          /\ pos[a].triggers # <<>>

\* C37: in every ladder built with the default count of 20 each stop is on the
\* loss side of its trigger: stop_prices[i] < triggers[i] for a long,
\* stop_prices[i] > triggers[i] for a short, for every index i.
C37_StopOnLossSideOfTrigger ==
    built.pc = "stored" =>
        \A i \in 1..DefaultCount :
            IF built.direction = "long"
            THEN built.stop_prices[i] < built.triggers[i]
            ELSE built.stop_prices[i] > built.triggers[i]

\* C38: whenever a ladder advance ends and the exchange still holds a position,
\* a STOP_MARKET closePosition order rests on the exchange or the handler goes
\* on to close the position with a market order; in particular an advance
\* whose placeTrailStopLoss cancelled the orders and then failed to submit
\* does not leave the position open without a stop.
C38_AdvanceLeavesStopOrCloses ==
    [][\A t \in Tasks :
         (/\ task[t].pc \in {"place", "pop"}
          /\ task'[t].pc \notin {"place", "pop"}
          /\ exPos'[Acct(t)] # "flat")
            => \/ exStop'[Acct(t)] # Null
               \/ task'[t].pc = "close"]_vars

\* the position record and the two locks of account b are left as they were
AccountUntouched(b) ==
    /\ pos'[b] = pos[b]
    /\ positionLocks'[b] = positionLocks[b]
    /\ processingTriggers'[b] = processingTriggers[b]

\* C39: processing for one account never changes another account's position
\* record or locks: every step taken for account A, in a kline handler or in
\* A's user stream, leaves B's record, entry lock and trigger lock unchanged;
\* and a tick of B is skipped for a lock only when B's own lock is held.
C39_AccountsIsolated ==
    [][/\ \A b \in AccountSet : last'.acct # b => AccountUntouched(b)
       /\ last'.kind = "entry_contended" => positionLocks[last'.acct]
       /\ last'.kind = "trigger_contended" => processingTriggers[last'.acct]]_vars

\* account B has just taken its entry or its advance while account A holds a
\* lock of its own
C39_Witness ==
    /\ last.kind \in {"entry_locked", "trigger_hit"}
    /\ last.acct = "B"
    /\ "A" \in AccountSet
    /\ positionLocks["A"] \/ processingTriggers["A"]

\* C40: updatePosition(account, symbol, patch) changes only the fields named in
\* the patch of that one position and leaves every other field, symbol and
\* account as it was; for an unknown account or symbol it raises an error,
\* changes nothing and issues no save.
C40_UpdatePositionFrame ==
    [][lastCall'.n # lastCall.n =>
          LET c == lastCall' IN
          IF c.account \in StoreAccounts /\ c.symbol \in StoreSymbols
          THEN /\ c.result = "returned"
               /\ \A f \in DOMAIN c.updates :
                     accountData'[c.account][c.symbol][f] = c.updates[f]
               /\ \A a \in StoreAccounts, s \in StoreSymbols, f \in DOMAIN StoredPosition :
                     (a # c.account \/ s # c.symbol \/ f \notin DOMAIN c.updates)
                        => accountData'[a][s][f] = accountData[a][s][f]
               /\ DOMAIN accountData' = StoreAccounts
               /\ \A a \in StoreAccounts :
                     /\ DOMAIN accountData'[a] = StoreSymbols
                     /\ \A s \in StoreSymbols :
                           DOMAIN accountData'[a][s] = DOMAIN StoredPosition
               /\ saveCalls' = saveCalls + 1
          ELSE /\ c.result = "threw"
               /\ accountData' = accountData
               /\ saveCalls' = saveCalls]_vars

\* a call for an unknown account or symbol has thrown after an earlier call
\* changed a position
C40_Witness ==
    /\ lastCall.result = "threw"
    /\ saveCalls > 0
    /\ \E a \in StoreAccounts, s \in StoreSymbols : accountData[a][s] # StoredPosition

====
